---- MODULE Spec2Model ----
(***************************************************************************)
(* nanomechat preprocessing: the Segmentation Engine (chunk_by_llm), the   *)
(* Continuation Oracle Adapter (ask_llm_about_continuation) and the        *)
(* Chunk-to-Record Converter (chunk_to_chatml) of                          *)
(* src/preprocessing/process/core.py.                                      *)
(*                                                                         *)
(* Representation.                                                         *)
(*   - A timestamp is the ISO-8601 string the cleaner writes               *)
(*     (datetime.isoformat() of a naive datetime, "YYYY-MM-DDTHH:MM:SS"),  *)
(*     kept as its fields <<day, hour, minute, second>>.  FromIsoFormat    *)
(*     parses it to seconds; the hour of day is the field.                 *)
(*   - A text is a sequence of one-character strings.                      *)
(*   - A Python list is a sequence; Python index k is TLA+ index k + 1.    *)
(*   - Optional[x] is a sequence of length 0 (None) or 1.                  *)
(***************************************************************************)
EXTENDS Integers, Sequences, FiniteSets, TLC

\* ------------------------------------------------------------------ bounds

\* Longest message sequence handed to chunk_by_llm.
MaxMsgs == 3

\* Longest chunk handed to chunk_to_chatml.
MaxChunk == 4

\* Most messages in the cleaned file handed to process_cleaned_file.
MaxProcMsgs == 4

\* Most messages in a cleaned file that process_cleaned_file is run on twice.
MaxTwiceMsgs == 3

\* Longest response text handed to ask_llm_about_continuation.
MaxContent == 4

\* Most records handed to split_eval.
MaxRows == 4

\* Most records in one persona file handed to build_eval_datasets.
MaxPersonaRows == 2

\* Most records in one persona file handed to combine_personas.
MaxCombineRows == 2

\* Most runs of combine_personas in a row.
MaxCombineRuns == 3

\* Most runs of the stages (process, combine, split) over one directory, and
\* most messages of the cleaned file those process runs read.
MaxPipeRuns == 3

MaxPipeMsgs == 2

\* Most messages of a cleaned file offered for manual labelling.
MaxLabelMsgs == 3

\* Most messages of a persona's VLM data file, and most examples saved in the
\* life of the labelling process.
MaxImages == 2

MaxSaves == 3

\* ------------------------------------------------- configuration (core.py)

AUTO_GROUP_MINUTES == 15

LLM_QUERY_MAX_MINUTES == 240

SLEEP_START_HOUR == 0

SLEEP_END_HOUR == 10

YOUR_NAME == "Festus"

\* ------------------------------------------------------------ Python glue

None == <<>>

Some(x) == <<x>>

\* seq[k] of Python, k counted from 0.
Py(seq, k) == seq[k + 1]

\* seq[k:] of Python.
SliceFrom(seq, k) == SubSeq(seq, k + 1, Len(seq))

\* ------------------------------------------------------------- timestamps

\* datetime.isoformat() of the instant s seconds after midnight of day 0.
IsoFormat(s) == <<s \div 86400, (s % 86400) \div 3600, (s % 3600) \div 60, s % 60>>

\* datetime.fromisoformat(ts), as seconds since midnight of day 0.
FromIsoFormat(ts) == ts[1] * 86400 + ts[2] * 3600 + ts[3] * 60 + ts[4]

\* dt.hour of the parsed timestamp.
HourOf(ts) == ts[2]

is_in_sleep_hours(ts) == SLEEP_START_HOUR <= HourOf(ts) /\ HourOf(ts) < SLEEP_END_HOUR

\* (curr_time - prev_time).total_seconds()
TimeDiffSeconds(prev_msg, curr_msg) ==
    FromIsoFormat(curr_msg.timestamp) - FromIsoFormat(prev_msg.timestamp)

\* Mutant: "<=" written for "<" in the auto-group test.
MinutesLtOrEqual(seconds, minutes) == seconds <= minutes * 60

\* time_diff_minutes = total_seconds() / 60 is a float; the comparisons with a
\* whole number of minutes are made on the seconds, which is the same order.
MinutesLt(seconds, minutes) == seconds < minutes * 60

\* Mutant: "<" written for "<=" in the oracle band's upper test.
MinutesLeStrict(seconds, minutes) == seconds < minutes * 60

MinutesLe(seconds, minutes) == seconds <= minutes * 60

\* ------------------------------------------------------------------ texts

UpperChar(c) ==
    CASE c = "y" -> "Y"
      [] c = "e" -> "E"
      [] c = "s" -> "S"
      [] c = "n" -> "N"
      [] c = "o" -> "O"
      [] OTHER -> c

\* Mutant: the text compared as it came.
UpperLeftOut(s) == s

\* str.upper()
Upper(s) == [k \in 1..Len(s) |-> UpperChar(s[k])]

IsSpace(c) == c \in {" ", "\n", "\t"}

RECURSIVE LStrip(_)
LStrip(s) == IF s # <<>> /\ IsSpace(s[1]) THEN LStrip(Tail(s)) ELSE s

RECURSIVE RStrip(_)
RStrip(s) ==
    IF s # <<>> /\ IsSpace(s[Len(s)]) THEN RStrip(SubSeq(s, 1, Len(s) - 1)) ELSE s

\* str.strip()
Strip(s) == RStrip(LStrip(s))

\* sub in s
Contains(sub, s) ==
    \E k \in 0..(Len(s) - Len(sub)) : SubSeq(s, k + 1, k + Len(sub)) = sub

\* sep.join(parts)
RECURSIVE Join(_, _)
Join(sep, parts) ==
    IF parts = <<>> THEN <<>>
    ELSE IF Len(parts) = 1 THEN parts[1]
    ELSE parts[1] \o sep \o Join(sep, Tail(parts))


\* ------------------------------------------------- the oracle's outcomes

\* What requests.post and the service can do to one call.
\* requests raised (connection error, timeout):
TransportError == [kind |-> "exception", status_code |-> 0, content |-> <<>>]

\* a response whose body is JSON carrying message.content:
Response(code, content) == [kind |-> "response", status_code |-> code, content |-> content]

\* a 200 response whose body response.json() cannot parse:
Unparseable == [kind |-> "unparseable", status_code |-> 200, content |-> <<>>]

\* no call was made:
NoCall == [kind |-> "nocall", status_code |-> 0, content |-> <<>>]

YES == <<"Y", "E", "S">>

NO == <<"N", "O">>

\* The outcomes the segmentation pass is run against.
Outcomes ==
    {TransportError, Unparseable, Response(500, <<>>), Response(200, YES), Response(200, NO)}

\* A function's way out: a value returned, or an exception raised.
Return(v) == [raised |-> FALSE, value |-> v]

Raise == [raised |-> TRUE, value |-> FALSE]

\* ------------------------------------------- ask_llm_about_continuation

\* conversation_so_far[-10:] (core.py 68).
LastTen(conversation_so_far) ==
    SubSeq(conversation_so_far,
           IF Len(conversation_so_far) > 10 THEN Len(conversation_so_far) - 9 ELSE 1,
           Len(conversation_so_far))

\* The label a message gets in the prompt (core.py 69 and 73).
PromptSender(conversation_so_far, msg) ==
    IF msg.sender = Py(conversation_so_far, 0).sender THEN "User" ELSE "Assistant"

\* The labels of the prompt's lines: one per message of the context, then the
\* one of the new message (core.py 67-74).
PromptLabels(conversation_so_far, new_message) ==
    [context |-> [k \in 1..Len(LastTen(conversation_so_far)) |->
                     PromptSender(conversation_so_far, LastTen(conversation_so_far)[k])],
     candidate |-> PromptSender(conversation_so_far, new_message)]

\* The body of the try block from the network call on (core.py 84-105).
AdapterTry(outcome) ==
    IF outcome.kind # "response" THEN Raise
    ELSE IF outcome.status_code = 200
         THEN Return(Contains(YES, Upper(Strip(outcome.content))))
         ELSE Return(FALSE)

\* Mutant: the try block without its except clause.
AskNoCatch(conversation_so_far, new_message, outcome) == AdapterTry(outcome)

\* except Exception: return False (core.py 106-109).
ask_llm_about_continuation(conversation_so_far, new_message, outcome) ==
    IF conversation_so_far = <<>> \/ AdapterTry(outcome).raised
    THEN Return(FALSE)
    ELSE AdapterTry(outcome)


\* ------------------------------------------------------------------ state

VARIABLES
    messages,       \* chunk_by_llm: the argument
    i,              \* chunk_by_llm: the loop variable (Python index of curr_msg)
    chunks,         \* chunk_by_llm: the finalized chunks
    current_chunk,  \* chunk_by_llm: the chunk being built
    result,         \* chunk_by_llm: the value returned
    pc,             \* chunk_by_llm: "idle", "chunk_call", "chunk_loop", "chunk_done", "chunk_raised"
    oracle_calls,   \* the calls made to ask_llm_about_continuation, in order
    conv_chunk,     \* chunk_to_chatml: the chunk argument
    conv_persona,   \* chunk_to_chatml: the persona argument
    conv,           \* chunk_to_chatml: the value returned (None or a record)
    conv_pc,        \* chunk_to_chatml: "idle", "conv_call", "conv_done"
    cleaned_file,   \* chats_cleaned/<PERSONA>.json: the messages as the cleaner wrote them
    persona_file,   \* chats_processed/<persona>.jsonl: None, or its records line by line
    chatml_conversations,  \* process_cleaned_file: the value returned
    proc_pc,        \* process_cleaned_file: "idle", "proc_call", "proc_chunking", "proc_done"
    proc_run,       \* which run of process_cleaned_file on the cleaned file this is
    proc_prev,      \* the oracle's calls and the persona file of the run before
    split_rows,     \* split_eval: the rows argument
    split_cfg,      \* split_eval: the cfg argument
    indices,        \* split_eval: the index list after rng.shuffle
    eval_rows,      \* split_eval: the first list returned
    remaining_rows, \* split_eval: the second list returned
    split_pc,       \* split_eval: "idle", "split_call", "split_done"
    input_files,    \* cfg.input_dir: file stem -> the records of <stem>.jsonl
    build_cfg,      \* build_eval_datasets: the cfg argument
    rng,            \* build_eval_datasets: the generator rng
    twister,        \* what random.Random has been seen to draw: shuffle key -> permutation
    todo,           \* build_eval_datasets: persona_files still to visit, in order
    sft_eval_all,   \* build_eval_datasets: the combined eval pool
    sft_train_all,  \* build_eval_datasets: the combined train pool
    summary,        \* build_eval_datasets: the summary dict
    lora_eval,      \* output_dir/lora: persona -> records of <persona>.jsonl
    lora_train,     \* train_dir/lora: persona -> records of <persona>.jsonl
    sft_eval,       \* output_dir/sft/conversations_eval.jsonl, None while absent
    sft_train,      \* train_dir/sft/conversations_train.jsonl, None while absent
    meta,           \* output_dir/meta.json, None while absent
    build_error,    \* the exception build_eval_datasets raised, None if none
    build_pc,       \* "idle", "build_call", "build_personas", "build_sft_train",
                    \* "build_meta", "build_done", "build_raised"
    run,            \* which run of the splitter this is
    prev,           \* the input files, cfg and output files when this run began
    processed_dir,  \* PROCESSED_DIR of combine.py: file stem -> the records of <stem>.jsonl
    combine_runs,   \* how many times combine_personas has run
    ask_context,    \* ask_llm_about_continuation: conversation_so_far
    ask_candidate,  \* ask_llm_about_continuation: new_message
    ask_outcome,    \* what requests.post and the service do to the call
    ask_answer,     \* ask_llm_about_continuation: its way out
    ask_pc,         \* ask_llm_about_continuation: "idle", "ask_call", "ask_done"
    pipe_runs,      \* how many runs of the stages the operator has started
    current_mode,   \* labelling: the global current_mode ("None", "manual", "vlm")
    current_persona,  \* labelling: the global current_persona ("None" or a persona)
    all_messages,   \* labelling: the messages (manual) or image messages (vlm) to label
    current_index,  \* labelling: the global current_index
    current_conversation,  \* labelling: the conversation in progress
    labeled_conversations,  \* labelling: the global labeled_conversations
    vlm_undo_stack, \* labelling: the global vlm_undo_stack
    vlm_cleaned,    \* datasets/vlm/cleaned: persona -> the image messages of <persona>.json
    vlm_output_files,  \* datasets/vlm/labeled: persona -> the lines of labeled_examples.jsonl
    vlm_progress,   \* datasets/vlm/labeled: persona -> the content of .progress_<persona>.json
    request,        \* labelling: the route of the request handled last
    response,       \* labelling: the response to it
    threads         \* labelling: where each request handled by a thread of its own stands

segVars == <<messages, i, chunks, current_chunk, result, pc, oracle_calls>>

convVars == <<conv_chunk, conv_persona, conv, conv_pc>>

procVars == <<cleaned_file, persona_file, chatml_conversations, proc_pc, proc_run, proc_prev>>

splitVars == <<split_rows, split_cfg, indices, eval_rows, remaining_rows, split_pc>>

outVars == <<lora_eval, lora_train, sft_eval, sft_train, meta>>

buildVars ==
    <<input_files, build_cfg, rng, twister, todo, sft_eval_all, sft_train_all, summary,
      outVars, build_error, build_pc, run, prev>>

combineVars == <<processed_dir, combine_runs>>

askVars == <<ask_context, ask_candidate, ask_outcome, ask_answer, ask_pc>>

pipeVars == <<pipe_runs>>

labVars ==
    <<current_mode, current_persona, all_messages, current_index, current_conversation,
      labeled_conversations, vlm_undo_stack, vlm_cleaned, vlm_output_files, vlm_progress,
      request, response, threads>>

vars ==
    <<segVars, convVars, procVars, splitVars, buildVars, combineVars, askVars, pipeVars,
      labVars>>

\* ------------------------------------------------------------- the inputs

Senders == {YOUR_NAME, "Ada"}

\* 09:00:00 and 22:00:00 of day 0, in seconds.
Starts == {32400, 79200}

\* Seconds between consecutive messages: -5 min (unsorted input), 5 min,
\* 15 min, 15 min + 1 s, 240 min, 240 min + 1 s, 5 h.
Gaps == {-300, 300, 900, 901, 14400, 14401, 18000}

Letters == <<"a", "b", "c", "d", "e", "f">>

RECURSIVE Instant(_, _, _)
Instant(start, gaps, k) == IF k = 1 THEN start ELSE Instant(start, gaps, k - 1) + gaps[k - 1]

\* The cleaned messages of one persona: {timestamp, sender, message}, the
\* k-th carrying the k-th letter as its text.
MessageSeqs(n) ==
    { [k \in 1..n |->
          [timestamp |-> IsoFormat(Instant(start, g, k)),
           sender |-> s[k],
           message |-> <<Letters[k]>>]] :
      start \in Starts, g \in [1..(n - 1) -> Gaps], s \in [1..n -> Senders] }

SegIdle ==
    /\ messages = <<>>
    /\ i = 0
    /\ chunks = <<>>
    /\ current_chunk = <<>>
    /\ result = <<>>
    /\ pc = "idle"
    /\ oracle_calls = <<>>

SegInit ==
    /\ messages \in UNION {MessageSeqs(n) : n \in 0..MaxMsgs}
    /\ i = 0
    /\ chunks = <<>>
    /\ current_chunk = <<>>
    /\ result = <<>>
    /\ pc = "chunk_call"
    /\ oracle_calls = <<>>

\* ------------------------------------------------------------ chunk_by_llm

\* Mutant: the auto-group test made on the seconds, the division by 60 forgotten.
DecisionSecondsForMinutes(chunk_so_far, prev_msg, curr_msg, outcome) ==
    LET time_diff == TimeDiffSeconds(prev_msg, curr_msg)
        ask == ask_llm_about_continuation(chunk_so_far, curr_msg, outcome)
    IN  IF time_diff < AUTO_GROUP_MINUTES
        THEN [asked |-> FALSE, should_continue |-> Return(TRUE)]
        ELSE IF MinutesLe(time_diff, LLM_QUERY_MAX_MINUTES)
        THEN [asked |-> TRUE, should_continue |-> ask]
        ELSE IF is_in_sleep_hours(curr_msg.timestamp)
        THEN [asked |-> TRUE, should_continue |-> ask]
        ELSE [asked |-> FALSE, should_continue |-> Return(FALSE)]

\* Mutant: the sleep-hours test made on the earlier message.
DecisionPrevHour(chunk_so_far, prev_msg, curr_msg, outcome) ==
    LET time_diff == TimeDiffSeconds(prev_msg, curr_msg)
        ask == ask_llm_about_continuation(chunk_so_far, curr_msg, outcome)
    IN  IF MinutesLt(time_diff, AUTO_GROUP_MINUTES)
        THEN [asked |-> FALSE, should_continue |-> Return(TRUE)]
        ELSE IF MinutesLe(time_diff, LLM_QUERY_MAX_MINUTES)
        THEN [asked |-> TRUE, should_continue |-> ask]
        ELSE IF is_in_sleep_hours(prev_msg.timestamp)
        THEN [asked |-> TRUE, should_continue |-> ask]
        ELSE [asked |-> FALSE, should_continue |-> Return(FALSE)]

\* Mutant: a later message with an earlier timestamp is an error.
DecisionNegativeGapRaises(chunk_so_far, prev_msg, curr_msg, outcome) ==
    LET time_diff == TimeDiffSeconds(prev_msg, curr_msg)
        ask == ask_llm_about_continuation(chunk_so_far, curr_msg, outcome)
    IN  IF time_diff < 0
        THEN [asked |-> FALSE, should_continue |-> Raise]
        ELSE IF MinutesLt(time_diff, AUTO_GROUP_MINUTES)
        THEN [asked |-> FALSE, should_continue |-> Return(TRUE)]
        ELSE IF MinutesLe(time_diff, LLM_QUERY_MAX_MINUTES)
        THEN [asked |-> TRUE, should_continue |-> ask]
        ELSE IF is_in_sleep_hours(curr_msg.timestamp)
        THEN [asked |-> TRUE, should_continue |-> ask]
        ELSE [asked |-> FALSE, should_continue |-> Return(FALSE)]

\* Mutant: a long gap asks the oracle at any hour.
DecisionNoForcedSplit(chunk_so_far, prev_msg, curr_msg, outcome) ==
    LET time_diff == TimeDiffSeconds(prev_msg, curr_msg)
        ask == ask_llm_about_continuation(chunk_so_far, curr_msg, outcome)
    IN  IF MinutesLt(time_diff, AUTO_GROUP_MINUTES)
        THEN [asked |-> FALSE, should_continue |-> Return(TRUE)]
        ELSE [asked |-> TRUE, should_continue |-> ask]

\* The three-tier decision of one loop iteration (core.py 139-151):
\* whether the oracle is asked, and should_continue.
Decision(chunk_so_far, prev_msg, curr_msg, outcome) ==
    LET time_diff == TimeDiffSeconds(prev_msg, curr_msg)
        ask == ask_llm_about_continuation(chunk_so_far, curr_msg, outcome)
    IN  IF MinutesLt(time_diff, AUTO_GROUP_MINUTES)
        THEN [asked |-> FALSE, should_continue |-> Return(TRUE)]
        ELSE IF MinutesLe(time_diff, LLM_QUERY_MAX_MINUTES)
        THEN [asked |-> TRUE, should_continue |-> ask]
        ELSE IF is_in_sleep_hours(curr_msg.timestamp)
        THEN [asked |-> TRUE, should_continue |-> ask]
        ELSE [asked |-> FALSE, should_continue |-> Return(FALSE)]

\* Mutant: a single message returned as no chunk at all.
ChunkCallSingleDropped ==
    /\ pc = "chunk_call"
    /\ IF Len(messages) < 2
       THEN /\ result' = <<>>
            /\ pc' = "chunk_done"
            /\ UNCHANGED <<i, chunks, current_chunk>>
       ELSE /\ chunks' = <<>>
            /\ current_chunk' = <<Py(messages, 0)>>
            /\ i' = 1
            /\ pc' = "chunk_loop"
            /\ UNCHANGED result
    /\ UNCHANGED <<messages, oracle_calls>>

\* Lines 123-130: the degenerate inputs, and the first chunk.
ChunkCall ==
    /\ pc = "chunk_call"
    /\ IF messages = <<>>
       THEN /\ result' = <<>>
            /\ pc' = "chunk_done"
            /\ UNCHANGED <<i, chunks, current_chunk>>
       ELSE IF Len(messages) < 2
       THEN /\ result' = <<messages>>
            /\ pc' = "chunk_done"
            /\ UNCHANGED <<i, chunks, current_chunk>>
       ELSE /\ chunks' = <<>>
            /\ current_chunk' = <<Py(messages, 0)>>
            /\ i' = 1
            /\ pc' = "chunk_loop"
            /\ UNCHANGED result
    /\ UNCHANGED <<messages, oracle_calls>>

\* Mutant: the message that starts a new chunk also ends the chunk before it.
ChunkStepSharesBoundary ==
    /\ pc = "chunk_loop"
    /\ i < Len(messages)
    /\ \E outcome \in Outcomes \cup {NoCall} :
         LET prev_msg == Py(messages, i - 1)
             curr_msg == Py(messages, i)
             d == Decision(current_chunk, prev_msg, curr_msg, outcome)
         IN  /\ d.asked <=> outcome # NoCall
             /\ oracle_calls' =
                    IF d.asked
                    THEN Append(oracle_calls,
                                [pair |-> i, context |-> current_chunk,
                                 candidate |-> curr_msg, outcome |-> outcome,
                                 labels |-> PromptLabels(current_chunk, curr_msg)])
                    ELSE oracle_calls
             /\ pc' = "chunk_loop"
             /\ i' = i + 1
             /\ IF d.should_continue.value
                THEN /\ current_chunk' = Append(current_chunk, curr_msg)
                     /\ UNCHANGED chunks
                ELSE /\ chunks' = Append(chunks, Append(current_chunk, curr_msg))
                     /\ current_chunk' = <<curr_msg>>
    /\ UNCHANGED <<messages, result>>

\* Mutant: a split starts the list of finalized chunks afresh.
ChunkStepRestartsChunks ==
    /\ pc = "chunk_loop"
    /\ i < Len(messages)
    /\ \E outcome \in Outcomes \cup {NoCall} :
         LET prev_msg == Py(messages, i - 1)
             curr_msg == Py(messages, i)
             d == Decision(current_chunk, prev_msg, curr_msg, outcome)
         IN  /\ d.asked <=> outcome # NoCall
             /\ oracle_calls' =
                    IF d.asked
                    THEN Append(oracle_calls,
                                [pair |-> i, context |-> current_chunk,
                                 candidate |-> curr_msg, outcome |-> outcome,
                                 labels |-> PromptLabels(current_chunk, curr_msg)])
                    ELSE oracle_calls
             /\ pc' = "chunk_loop"
             /\ i' = i + 1
             /\ IF d.should_continue.value
                THEN /\ current_chunk' = Append(current_chunk, curr_msg)
                     /\ UNCHANGED chunks
                ELSE /\ chunks' = <<current_chunk>>
                     /\ current_chunk' = <<curr_msg>>
    /\ UNCHANGED <<messages, result>>

\* Mutant: a call that fails is made a second time.
ChunkStepRetries ==
    /\ pc = "chunk_loop"
    /\ i < Len(messages)
    /\ \E outcome \in Outcomes \cup {NoCall} :
         LET prev_msg == Py(messages, i - 1)
             curr_msg == Py(messages, i)
             d == Decision(current_chunk, prev_msg, curr_msg, outcome)
             call == [pair |-> i, context |-> current_chunk,
                      candidate |-> curr_msg, outcome |-> outcome,
                      labels |-> PromptLabels(current_chunk, curr_msg)]
         IN  /\ d.asked <=> outcome # NoCall
             /\ oracle_calls' =
                    IF ~d.asked THEN oracle_calls
                    ELSE IF outcome.kind = "response" /\ outcome.status_code = 200
                    THEN Append(oracle_calls, call)
                    ELSE Append(Append(oracle_calls, call), call)
             /\ pc' = "chunk_loop"
             /\ i' = i + 1
             /\ IF d.should_continue.value
                THEN /\ current_chunk' = Append(current_chunk, curr_msg)
                     /\ UNCHANGED chunks
                ELSE /\ chunks' = Append(chunks, current_chunk)
                     /\ current_chunk' = <<curr_msg>>
    /\ UNCHANGED <<messages, result>>

\* Lines 132-157: one iteration of the loop, the oracle's outcome included.
ChunkStep ==
    /\ pc = "chunk_loop"
    /\ i < Len(messages)
    /\ \E outcome \in Outcomes \cup {NoCall} :
         LET prev_msg == Py(messages, i - 1)
             curr_msg == Py(messages, i)
             d == Decision(current_chunk, prev_msg, curr_msg, outcome)
         IN  /\ d.asked <=> outcome # NoCall
             /\ oracle_calls' =
                    IF d.asked
                    THEN Append(oracle_calls,
                                [pair |-> i, context |-> current_chunk,
                                 candidate |-> curr_msg, outcome |-> outcome,
                                 labels |-> PromptLabels(current_chunk, curr_msg)])
                    ELSE oracle_calls
             /\ IF d.should_continue.raised
                THEN /\ pc' = "chunk_raised"
                     /\ UNCHANGED <<i, chunks, current_chunk>>
                ELSE /\ pc' = "chunk_loop"
                     /\ i' = i + 1
                     /\ IF d.should_continue.value
                        THEN /\ current_chunk' = Append(current_chunk, curr_msg)
                             /\ UNCHANGED chunks
                        ELSE /\ chunks' = Append(chunks, current_chunk)
                             /\ current_chunk' = <<curr_msg>>
    /\ UNCHANGED <<messages, result>>

\* Mutant: the return without the append of the chunk being built.
ChunkReturnDropLast ==
    /\ pc = "chunk_loop"
    /\ i = Len(messages)
    /\ result' = chunks
    /\ pc' = "chunk_done"
    /\ UNCHANGED <<messages, i, chunks, current_chunk, oracle_calls>>

\* Lines 159-162: the last chunk, and the return.
ChunkReturn ==
    /\ pc = "chunk_loop"
    /\ i = Len(messages)
    /\ chunks' = IF current_chunk # <<>> THEN Append(chunks, current_chunk) ELSE chunks
    /\ result' = chunks'
    /\ pc' = "chunk_done"
    /\ UNCHANGED <<messages, i, current_chunk, oracle_calls>>

\* --------------------------------------------------------- chunk_to_chatml

\* Line 201: the role derived from the sender.
RoleOf(msg) == IF msg.sender = YOUR_NAME THEN "assistant" ELSE "user"

\* Lines 184-191: the Python index of the first message not sent by
\* YOUR_NAME; -1 stands for the loop's else branch (none found).
RECURSIVE FirstUserFrom(_, _)
FirstUserFrom(chunk, k) ==
    IF k >= Len(chunk) THEN -1
    ELSE IF Py(chunk, k).sender # YOUR_NAME THEN k
    ELSE FirstUserFrom(chunk, k + 1)

\* Mutant: start_idx never moved from 0.
TrimStartZero(chunk) == IF FirstUserFrom(chunk, 0) = -1 THEN -1 ELSE 0

\* Mutant: at most one leading message trimmed.
TrimStartOne(chunk) ==
    IF FirstUserFrom(chunk, 0) = -1 THEN -1
    ELSE IF FirstUserFrom(chunk, 0) > 0 THEN 1 ELSE 0

TrimStart(chunk) == FirstUserFrom(chunk, 0)

NoRole == "None"

\* Lines 200-212: the merge loop from message k on, carrying
\* merged_messages, current_role and current_content.
RECURSIVE MergeLoop(_, _, _, _, _)
MergeLoop(chunk, k, merged_messages, current_role, current_content) ==
    IF k >= Len(chunk)
    THEN [merged_messages |-> merged_messages,
          current_role |-> current_role,
          current_content |-> current_content]
    ELSE LET msg == Py(chunk, k)
             role == RoleOf(msg)
         IN  IF role = current_role
             THEN MergeLoop(chunk, k + 1, merged_messages, current_role,
                            Append(current_content, msg.message))
             ELSE MergeLoop(chunk, k + 1,
                            IF current_role # NoRole
                            THEN Append(merged_messages,
                                        [role |-> current_role,
                                         content |-> Join(<<"\n">>, current_content)])
                            ELSE merged_messages,
                            role, <<msg.message>>)

\* Mutant: the append of the final turn (lines 215-219) forgotten.
MergeMessagesNoFinal(chunk) == MergeLoop(chunk, 0, <<>>, NoRole, <<>>).merged_messages

\* Lines 196-219: the merged turns of the trimmed chunk.
MergeMessages(chunk) ==
    LET end == MergeLoop(chunk, 0, <<>>, NoRole, <<>>)
    IN  IF end.current_role # NoRole
        THEN Append(end.merged_messages,
                    [role |-> end.current_role,
                     content |-> Join(<<"\n">>, end.current_content)])
        ELSE end.merged_messages

\* Mutant: the no-assistant check dropped.
HasAssistantAlways(merged_messages) == TRUE

\* Line 222.
HasAssistant(merged_messages) ==
    \E k \in 1..Len(merged_messages) : merged_messages[k].role = "assistant"

\* Mutant: timestamp_start read before the chunk is trimmed.
chunk_to_chatml_UntrimmedStart(chunk, persona) ==
    IF Len(chunk) < 2 THEN None
    ELSE IF TrimStart(chunk) = -1 THEN None
    ELSE LET trimmed == SliceFrom(chunk, TrimStart(chunk))
             merged_messages == MergeMessages(trimmed)
         IN  IF ~HasAssistant(merged_messages) THEN None
             ELSE Some([messages |-> merged_messages,
                        persona |-> persona,
                        timestamp_start |-> Py(chunk, 0).timestamp,
                        timestamp_end |-> trimmed[Len(trimmed)].timestamp])

chunk_to_chatml(chunk, persona) ==
    IF Len(chunk) < 2 THEN None
    ELSE IF TrimStart(chunk) = -1 THEN None
    ELSE LET trimmed == SliceFrom(chunk, TrimStart(chunk))
             merged_messages == MergeMessages(trimmed)
         IN  IF ~HasAssistant(merged_messages) THEN None
             ELSE Some([messages |-> merged_messages,
                        persona |-> persona,
                        timestamp_start |-> Py(trimmed, 0).timestamp,
                        timestamp_end |-> trimmed[Len(trimmed)].timestamp])

\* The chunks the converter is run against: any senders, any texts, one
\* message a minute from 09:01:00 on.
ConvSenders == {YOUR_NAME, "Ada", "Bola"}

ConvTexts == {<<"a">>, <<"b", "c">>}

ChunkSeqs(n) ==
    { [k \in 1..n |->
          [timestamp |-> IsoFormat(32400 + 60 * k),
           sender |-> s[k],
           message |-> t[k]]] :
      s \in [1..n -> ConvSenders], t \in [1..n -> ConvTexts] }

ConvIdle ==
    /\ conv_chunk = <<>>
    /\ conv_persona = "sister"
    /\ conv = None
    /\ conv_pc = "idle"

ConvInit ==
    /\ conv_chunk \in UNION {ChunkSeqs(n) : n \in 0..MaxChunk}
    /\ conv_persona = "sister"
    /\ conv = None
    /\ conv_pc = "conv_call"

\* One call of chunk_to_chatml.
Convert ==
    /\ conv_pc = "conv_call"
    /\ conv' = chunk_to_chatml(conv_chunk, conv_persona)
    /\ conv_pc' = "conv_done"
    /\ UNCHANGED <<conv_chunk, conv_persona>>

\* ---------------------------------------------------- process_cleaned_file

\* filepath.stem.lower() (line 243), for the file names in use.
PersonaOf(stem) == IF stem = "SISTER" THEN "sister" ELSE stem

\* a["timestamp"] <= b["timestamp"] as Python compares the two ISO strings:
\* field by field, every field being zero-padded to a fixed width.
TimestampLe(a, b) ==
    \/ a[1] < b[1]
    \/ a[1] = b[1] /\ a[2] < b[2]
    \/ a[1] = b[1] /\ a[2] = b[2] /\ a[3] < b[3]
    \/ a[1] = b[1] /\ a[2] = b[2] /\ a[3] = b[3] /\ a[4] <= b[4]

\* m put after the last message of a sorted list that is not later than it.
RECURSIVE InsertSorted(_, _)
InsertSorted(sorted, m) ==
    IF sorted = <<>> THEN <<m>>
    ELSE IF TimestampLe(sorted[Len(sorted)].timestamp, m.timestamp)
    THEN Append(sorted, m)
    ELSE Append(InsertSorted(SubSeq(sorted, 1, Len(sorted) - 1), m), sorted[Len(sorted)])

\* Mutant: the messages handed on in the order of the file.
SortByTimestampLeftOut(msgs) == msgs

\* messages.sort(key=lambda m: m["timestamp"]) (line 268): a stable sort.
RECURSIVE SortByTimestamp(_)
SortByTimestamp(msgs) ==
    IF msgs = <<>> THEN <<>>
    ELSE InsertSorted(SortByTimestamp(SubSeq(msgs, 1, Len(msgs) - 1)), msgs[Len(msgs)])

\* Lines 273-277: the records of the chunks that chunk_to_chatml accepts.
RECURSIVE ConvertAll(_, _)
ConvertAll(chunk_list, persona) ==
    IF chunk_list = <<>> THEN <<>>
    ELSE chunk_to_chatml(chunk_list[1], persona) \o ConvertAll(Tail(chunk_list), persona)

\* The cleaned files process_cleaned_file is run against: from 09:00:00 on,
\* gaps of -5 min (the cleaner's order is not the time order), 5 min, 15 min
\* and 5 h 50 min.
ProcGaps == {-300, 300, 900, 21000}

ProcMessageSeqs(n) ==
    { [k \in 1..n |->
          [timestamp |-> IsoFormat(Instant(32400, g, k)),
           sender |-> s[k],
           message |-> <<Letters[k]>>]] :
      g \in [1..(n - 1) -> ProcGaps], s \in [1..n -> Senders] }

ProcIdle ==
    /\ cleaned_file = <<>>
    /\ persona_file = None
    /\ chatml_conversations = <<>>
    /\ proc_pc = "idle"
    /\ proc_run = 1
    /\ proc_prev = [calls |-> <<>>, file |-> None]

ProcInit ==
    /\ cleaned_file \in UNION {ProcMessageSeqs(n) : n \in 0..MaxProcMsgs}
    /\ persona_file = None
    /\ chatml_conversations = <<>>
    /\ proc_pc = "proc_call"
    /\ proc_run = 1
    /\ proc_prev = [calls |-> <<>>, file |-> None]

ProcTwiceInit ==
    /\ cleaned_file \in UNION {ProcMessageSeqs(n) : n \in 0..MaxTwiceMsgs}
    /\ persona_file = None
    /\ chatml_conversations = <<>>
    /\ proc_pc = "proc_call"
    /\ proc_run = 1
    /\ proc_prev = [calls |-> <<>>, file |-> None]

\* Lines 241-269: load the file, return at once if it holds no message,
\* else sort the messages and call chunk_by_llm.
ProcLoad ==
    /\ proc_pc = "proc_call"
    /\ IF cleaned_file = <<>>
       THEN /\ chatml_conversations' = <<>>
            /\ proc_pc' = "proc_done"
            /\ UNCHANGED segVars
       ELSE /\ messages' = SortByTimestamp(cleaned_file)
            /\ pc' = "chunk_call"
            /\ proc_pc' = "proc_chunking"
            /\ i' = 0
            /\ chunks' = <<>>
            /\ current_chunk' = <<>>
            /\ result' = <<>>
            /\ oracle_calls' = <<>>
            /\ UNCHANGED chatml_conversations
    /\ UNCHANGED <<cleaned_file, persona_file, proc_run, proc_prev>>

\* Mutant: the persona's file opened with "a", the records added to it.
ProcSaveAppends ==
    /\ proc_pc = "proc_chunking"
    /\ pc = "chunk_done"
    /\ chatml_conversations' = ConvertAll(result, PersonaOf("SISTER"))
    /\ persona_file' =
          Some((IF persona_file = None THEN <<>> ELSE persona_file[1]) \o chatml_conversations')
    /\ proc_pc' = "proc_done"
    /\ UNCHANGED <<cleaned_file, segVars, proc_run, proc_prev>>

\* Lines 270-289: convert the chunks and write the persona's file anew.
ProcSave ==
    /\ proc_pc = "proc_chunking"
    /\ pc = "chunk_done"
    /\ chatml_conversations' = ConvertAll(result, PersonaOf("SISTER"))
    /\ persona_file' = Some(chatml_conversations')
    /\ proc_pc' = "proc_done"
    /\ UNCHANGED <<cleaned_file, segVars, proc_run, proc_prev>>

\* The operator processes the persona a second time, the cleaned file as it was.
ProcAgain ==
    /\ proc_pc = "proc_done"
    /\ proc_run = 1
    /\ proc_run' = 2
    /\ proc_prev' = [calls |-> oracle_calls, file |-> persona_file]
    /\ proc_pc' = "proc_call"
    /\ UNCHANGED <<cleaned_file, persona_file, chatml_conversations, segVars>>

\* ------------------------------------- split_eval (create_eval_datasets.py)

\* A record of a persona's jsonl file, told from the others by its start hour.
Row(persona, k) == [persona |-> persona, timestamp_start |-> <<0, k, 0, 0>>]

Rows(persona, n) == [k \in 1..n |-> Row(persona, k)]

\* What rng.shuffle can make of list(range(n)).
PermSeqs(n) ==
    {q \in [1..n -> 0..(n - 1)] : \A a, b \in 1..n : q[a] = q[b] => a = b}

\* EvalSplitConfig; eval_ratio is the fraction <<numerator, denominator>>,
\* max_eval_per_persona is None or an integer.
Config(seed, eval_ratio, min_eval, max_eval) ==
    [seed |-> seed, eval_ratio |-> eval_ratio,
     min_eval_per_persona |-> min_eval, max_eval_per_persona |-> max_eval]

Min(a, b) == IF a <= b THEN a ELSE b

Max(a, b) == IF a >= b THEN a ELSE b

\* int(round(a / b)) for a >= 0 and b > 0: Python rounds a half to the even
\* neighbour.
RoundHalfEven(a, b) ==
    LET q == a \div b
        r == a % b
    IN  IF 2 * r < b THEN q
        ELSE IF 2 * r > b THEN q + 1
        ELSE IF q % 2 = 0 THEN q ELSE q + 1

\* Mutant: int(len(rows) * cfg.eval_ratio), the round left out.
DesiredTruncated(n, cfg) ==
    LET d1 == (n * cfg.eval_ratio[1]) \div cfg.eval_ratio[2]
        d2 == Max(d1, cfg.min_eval_per_persona)
        d3 == Min(d2, n)
    IN  IF cfg.max_eval_per_persona # None THEN Min(d3, cfg.max_eval_per_persona[1]) ELSE d3

\* Mutant: the maximum applied before the minimum.
DesiredMaxFirst(n, cfg) ==
    LET d0 == RoundHalfEven(n * cfg.eval_ratio[1], cfg.eval_ratio[2])
        d1 == IF cfg.max_eval_per_persona # None THEN Min(d0, cfg.max_eval_per_persona[1]) ELSE d0
        d2 == Max(d1, cfg.min_eval_per_persona)
    IN  Min(d2, n)

\* Lines 56-60: desired, for len(rows) = n.
Desired(n, cfg) ==
    LET d1 == RoundHalfEven(n * cfg.eval_ratio[1], cfg.eval_ratio[2])
        d2 == Max(d1, cfg.min_eval_per_persona)
        d3 == Min(d2, n)
    IN  IF cfg.max_eval_per_persona # None THEN Min(d3, cfg.max_eval_per_persona[1]) ELSE d3

\* seq[:d] of Python.
SliceTo(seq, d) ==
    IF d >= 0 THEN SubSeq(seq, 1, Min(d, Len(seq))) ELSE SubSeq(seq, 1, Max(0, Len(seq) + d))

\* [rows[i] for i in range(len(rows)) if (i in idx) = keep], from i = k on.
RECURSIVE RowsWhere(_, _, _, _)
RowsWhere(rows, k, idx, keep) ==
    IF k >= Len(rows) THEN <<>>
    ELSE (IF (k \in idx) = keep THEN <<Py(rows, k)>> ELSE <<>>) \o RowsWhere(rows, k + 1, idx, keep)

\* Mutant: the eval rows listed in the order of the shuffled indices.
split_eval_PermutationOrder(rows, shuffled, cfg) ==
    IF rows = <<>> THEN <<<<>>, <<>>>>
    ELSE LET head == SliceTo(shuffled, Desired(Len(rows), cfg))
             eval_idx == {head[j] : j \in 1..Len(head)}
         IN  <<[j \in 1..Len(head) |-> Py(rows, head[j])], RowsWhere(rows, 0, eval_idx, FALSE)>>

\* split_eval, given what rng.shuffle made of the indices: <<eval_rows, remaining_rows>>.
split_eval(rows, shuffled, cfg) ==
    IF rows = <<>> THEN <<<<>>, <<>>>>
    ELSE LET head == SliceTo(shuffled, Desired(Len(rows), cfg))
             eval_idx == {head[j] : j \in 1..Len(head)}
         IN  <<RowsWhere(rows, 0, eval_idx, TRUE), RowsWhere(rows, 0, eval_idx, FALSE)>>

\* The configurations split_eval is run against.
SplitRatios == {<<0, 1>>, <<1, 10>>, <<1, 2>>, <<1, 1>>}

SplitMins == {0, 1, 2, 25}

SplitMaxes == {None, Some(0), Some(1), Some(3)}

SplitIdle ==
    /\ split_rows = <<>>
    /\ split_cfg = Config(42, <<1, 10>>, 25, None)
    /\ indices = <<>>
    /\ eval_rows = <<>>
    /\ remaining_rows = <<>>
    /\ split_pc = "idle"

SplitInit ==
    /\ split_rows \in {Rows("sister", n) : n \in 0..MaxRows}
    /\ split_cfg \in {Config(42, r, lo, hi) : r \in SplitRatios, lo \in SplitMins, hi \in SplitMaxes}
    /\ indices = <<>>
    /\ eval_rows = <<>>
    /\ remaining_rows = <<>>
    /\ split_pc = "split_call"

\* One call of split_eval, the generator's shuffle included.
SplitEvalCall ==
    /\ split_pc = "split_call"
    /\ \E shuffled \in (IF split_rows = <<>> THEN {<<>>} ELSE PermSeqs(Len(split_rows))) :
          /\ indices' = shuffled
          /\ eval_rows' = split_eval(split_rows, shuffled, split_cfg)[1]
          /\ remaining_rows' = split_eval(split_rows, shuffled, split_cfg)[2]
    /\ split_pc' = "split_done"
    /\ UNCHANGED <<split_rows, split_cfg>>

\* ---------------------------- build_eval_datasets (create_eval_datasets.py)

\* The default of --input_dir, --output_dir and --train_dir.
INPUT_DIR == "datasets/core/chats_processed"

OUTPUT_DIR == "datasets/core/chats_evals"

TRAIN_DIR == "datasets/core/chats_train"

\* EvalSplitConfig as parse_args builds it.
BuildConfig(seed, min_eval) ==
    [input_dir |-> INPUT_DIR, output_dir |-> OUTPUT_DIR, train_dir |-> TRAIN_DIR]
        @@ Config(seed, <<1, 2>>, min_eval, None)

BuildSeeds == {42}

BuildMins == {0, 1}

BuildConfigs == {BuildConfig(seed, lo) : seed \in BuildSeeds, lo \in BuildMins}

\* The stems of the *.jsonl files the input directory may hold, as sorted()
\* orders their paths.
StemOrder == <<"brother", "conversations", "sister">>

Stems == {StemOrder[j] : j \in 1..Len(StemOrder)}

\* What a file of the input directory may hold: a persona file the records of
\* that persona, conversations.jsonl the combined records.
FileChoices(stem) ==
    IF stem = "conversations" THEN {Rows("brother", 1) \o Rows("sister", 1)}
    ELSE {Rows(stem, n) : n \in 0..MaxPersonaRows}

InputDirs ==
    UNION {{d \in [S -> UNION {FileChoices(stem) : stem \in S}] :
                \A stem \in S : d[stem] \in FileChoices(stem)} : S \in SUBSET Stems}

FileOf(dir, stem) == IF stem \in DOMAIN dir THEN Some(dir[stem]) ELSE None

\* The directories that differ from dir in at most one file.
Neighbours(dir) ==
    {e \in InputDirs : Cardinality({stem \in Stems : FileOf(dir, stem) # FileOf(e, stem)}) <= 1}

\* A dict with no key.
EmptyDict == [k \in {} |-> <<>>]

\* Mutant: every *.jsonl file taken for a persona file.
discover_persona_files_All(dir) == SelectSeq(StemOrder, LAMBDA stem : stem \in DOMAIN dir)

\* The keys of persona_files, in the order of insertion.
discover_persona_files(dir) ==
    SelectSeq(StemOrder, LAMBDA stem : stem \in DOMAIN dir /\ stem # "conversations")

\* random.Random(seed): the generator's seed and the lengths it has shuffled.
Random(seed) == [seed |-> seed, drawn |-> <<>>]

\* cfg.seed as a seed of random.Random.
IntSeed(seed) == <<"int", seed, "">>

\* persona_seed: the first 8 bytes of sha256("<seed>:<persona>"), told apart
\* from every other seed by the pair it hashes.
persona_seed(seed, persona) == <<"sha256", seed, persona>>

ShuffleKey(gen, n) == [seed |-> gen.seed, drawn |-> gen.drawn, n |-> n]

\* Mutant: a generator that owes nothing to its seed.
ShufflesUnseeded(gen, n) == PermSeqs(n)

\* What gen.shuffle can make of n indices: a list of fewer than 2 is left as
\* it is; a generator in a state seen before draws what it drew then.
Shuffles(gen, n) ==
    IF n < 2 THEN PermSeqs(n)
    ELSE IF ShuffleKey(gen, n) \in DOMAIN twister THEN {twister[ShuffleKey(gen, n)]}
    ELSE PermSeqs(n)

\* The generator after shuffling n items.
Drawn(gen, n) == IF n < 2 THEN gen ELSE [gen EXCEPT !.drawn = Append(@, n)]

\* The draws on record after gen shuffled n items into perm.
Learnt(gen, n, perm) == IF n < 2 THEN twister ELSE (ShuffleKey(gen, n) :> perm) @@ twister

\* The list after the shuffle that takes the indices to perm.
Shuffled(list, perm) == [j \in 1..Len(list) |-> Py(list, perm[j])]

\* Mutant: the pool assigned, not extended.
ExtendAssigns(list, more) == more

\* list.extend(more).
Extend(list, more) == list \o more

\* The FileNotFoundError of lines 73-75.
NoPersonaFilesError(cfg) ==
    [type |-> "FileNotFoundError",
     message |-> <<"No persona jsonl files found in ", cfg.input_dir,
                   ". Expected files like persona_1.jsonl, persona_2.jsonl, persona_3.jsonl">>]

\* The five kinds of output file, as they are now.
Outputs ==
    [lora_eval |-> lora_eval, lora_train |-> lora_train,
     sft_eval |-> sft_eval, sft_train |-> sft_train, meta |-> meta]

BuildIdle ==
    /\ input_files = EmptyDict
    /\ build_cfg = BuildConfig(42, 0)
    /\ rng = Random(IntSeed(42))
    /\ twister = EmptyDict
    /\ todo = <<>>
    /\ sft_eval_all = <<>>
    /\ sft_train_all = <<>>
    /\ summary = EmptyDict
    /\ lora_eval = EmptyDict
    /\ lora_train = EmptyDict
    /\ sft_eval = None
    /\ sft_train = None
    /\ meta = None
    /\ build_error = None
    /\ build_pc = "idle"
    /\ run = 1
    /\ prev = [input_files |-> EmptyDict, cfg |-> BuildConfig(42, 0), out |-> Outputs]

\* The splitter is called on an input directory, the output directories empty.
BuildInit ==
    /\ input_files \in InputDirs
    /\ build_cfg \in BuildConfigs
    /\ rng = Random(IntSeed(42))
    /\ twister = EmptyDict
    /\ todo = <<>>
    /\ sft_eval_all = <<>>
    /\ sft_train_all = <<>>
    /\ summary = EmptyDict
    /\ lora_eval = EmptyDict
    /\ lora_train = EmptyDict
    /\ sft_eval = None
    /\ sft_train = None
    /\ meta = None
    /\ build_error = None
    /\ build_pc = "build_call"
    /\ run = 1
    /\ prev = [input_files |-> input_files, cfg |-> build_cfg, out |-> Outputs]

\* Mutant: no check of persona_files, the run goes on with none.
BuildStartUnchecked ==
    /\ build_pc = "build_call"
    /\ rng' = Random(IntSeed(build_cfg.seed))
    /\ todo' = discover_persona_files(input_files)
    /\ sft_eval_all' = <<>>
    /\ sft_train_all' = <<>>
    /\ summary' = [personas |-> EmptyDict]
    /\ build_pc' = "build_personas"
    /\ UNCHANGED <<input_files, build_cfg, twister, outVars, build_error, run, prev>>

\* Lines 69-88: the generator, the discovery of the persona files, the error
\* when there is none, the empty pools and the summary.
BuildStart ==
    /\ build_pc = "build_call"
    /\ rng' = Random(IntSeed(build_cfg.seed))
    /\ IF discover_persona_files(input_files) = <<>>
       THEN /\ build_error' = Some(NoPersonaFilesError(build_cfg))
            /\ build_pc' = "build_raised"
            /\ UNCHANGED <<todo, sft_eval_all, sft_train_all, summary>>
       ELSE /\ todo' = discover_persona_files(input_files)
            /\ sft_eval_all' = <<>>
            /\ sft_train_all' = <<>>
            /\ summary' =
                  [input_dir |-> build_cfg.input_dir,
                   output_dir |-> build_cfg.output_dir,
                   train_dir |-> build_cfg.train_dir,
                   seed |-> build_cfg.seed,
                   eval_ratio |-> build_cfg.eval_ratio,
                   min_eval_per_persona |-> build_cfg.min_eval_per_persona,
                   max_eval_per_persona |-> build_cfg.max_eval_per_persona,
                   personas |-> EmptyDict]
            /\ build_pc' = "build_personas"
            /\ UNCHANGED build_error
    /\ UNCHANGED <<input_files, build_cfg, twister, outVars, run, prev>>

\* Lines 90-120 for the next persona, its split drawn from the generator gen;
\* shared tells that gen is rng itself, which then keeps what gen drew.
BuildPersonaWith(gen, shared) ==
    LET persona == Head(todo)
        rows == input_files[persona]
        drew == rows # <<>>
    IN  \E shuffled \in (IF drew THEN Shuffles(gen, Len(rows)) ELSE {<<>>}) :
            LET parts == split_eval(rows, shuffled, build_cfg)
            IN  /\ twister' = IF drew THEN Learnt(gen, Len(rows), shuffled) ELSE twister
                /\ rng' = IF shared /\ drew THEN Drawn(gen, Len(rows)) ELSE rng
                /\ lora_eval' = (persona :> parts[1]) @@ lora_eval
                /\ lora_train' = (persona :> parts[2]) @@ lora_train
                /\ sft_eval_all' = Extend(sft_eval_all, parts[1])
                /\ sft_train_all' = Extend(sft_train_all, parts[2])
                /\ summary' =
                      [summary EXCEPT !.personas =
                          (persona :> [total |-> Len(rows), eval |-> Len(parts[1]),
                                       remaining |-> Len(parts[2])]) @@ @]
                /\ todo' = Tail(todo)
                /\ UNCHANGED <<input_files, build_cfg, sft_eval, sft_train, meta,
                               build_error, build_pc, run, prev>>

\* Mutant: the persona's split drawn from rng, the generator of the whole run.
BuildPersonaSharedRng ==
    /\ build_pc = "build_personas"
    /\ todo # <<>>
    /\ BuildPersonaWith(rng, TRUE)

\* One turn of the loop of line 90, with persona_rng of lines 94-96.
BuildPersona ==
    /\ build_pc = "build_personas"
    /\ todo # <<>>
    /\ BuildPersonaWith(Random(persona_seed(build_cfg.seed, Head(todo))), FALSE)

\* Mutant: the combined eval pool shuffled by a generator of its own.
BuildSftEvalOwnRng ==
    /\ build_pc = "build_personas"
    /\ todo = <<>>
    /\ \E perm \in Shuffles(Random(persona_seed(build_cfg.seed, "conversations")),
                            Len(sft_eval_all)) :
          /\ sft_eval_all' = Shuffled(sft_eval_all, perm)
          /\ twister' = Learnt(Random(persona_seed(build_cfg.seed, "conversations")),
                               Len(sft_eval_all), perm)
    /\ sft_eval' = Some(sft_eval_all')
    /\ build_pc' = "build_sft_train"
    /\ UNCHANGED <<input_files, build_cfg, rng, todo, sft_train_all, summary, lora_eval,
                   lora_train, sft_train, meta, build_error, run, prev>>

\* Lines 123-126: the combined eval pool shuffled and written.
BuildSftEval ==
    /\ build_pc = "build_personas"
    /\ todo = <<>>
    /\ \E perm \in Shuffles(rng, Len(sft_eval_all)) :
          /\ sft_eval_all' = Shuffled(sft_eval_all, perm)
          /\ twister' = Learnt(rng, Len(sft_eval_all), perm)
    /\ rng' = Drawn(rng, Len(sft_eval_all))
    /\ sft_eval' = Some(sft_eval_all')
    /\ build_pc' = "build_sft_train"
    /\ UNCHANGED <<input_files, build_cfg, todo, sft_train_all, summary, lora_eval,
                   lora_train, sft_train, meta, build_error, run, prev>>

\* Mutant: eval_total counts the train pool.
BuildSftTrainMiscounts ==
    /\ build_pc = "build_sft_train"
    /\ \E perm \in Shuffles(rng, Len(sft_train_all)) :
          /\ sft_train_all' = Shuffled(sft_train_all, perm)
          /\ twister' = Learnt(rng, Len(sft_train_all), perm)
    /\ rng' = Drawn(rng, Len(sft_train_all))
    /\ sft_train' = Some(sft_train_all')
    /\ summary' =
          ("sft" :> [eval_total |-> Len(sft_train_all), train_total |-> Len(sft_train_all)])
              @@ summary
    /\ build_pc' = "build_meta"
    /\ UNCHANGED <<input_files, build_cfg, todo, sft_eval_all, lora_eval, lora_train,
                   sft_eval, meta, build_error, run, prev>>

\* Lines 129-137: the combined train pool shuffled and written, the totals
\* put into the summary.
BuildSftTrain ==
    /\ build_pc = "build_sft_train"
    /\ \E perm \in Shuffles(rng, Len(sft_train_all)) :
          /\ sft_train_all' = Shuffled(sft_train_all, perm)
          /\ twister' = Learnt(rng, Len(sft_train_all), perm)
    /\ rng' = Drawn(rng, Len(sft_train_all))
    /\ sft_train' = Some(sft_train_all')
    /\ summary' =
          ("sft" :> [eval_total |-> Len(sft_eval_all), train_total |-> Len(sft_train_all)])
              @@ summary
    /\ build_pc' = "build_meta"
    /\ UNCHANGED <<input_files, build_cfg, todo, sft_eval_all, lora_eval, lora_train,
                   sft_eval, meta, build_error, run, prev>>

\* Mutant: the return without the write of meta.json.
BuildMetaUnwritten ==
    /\ build_pc = "build_meta"
    /\ build_pc' = "build_done"
    /\ UNCHANGED <<input_files, build_cfg, rng, twister, todo, sft_eval_all, sft_train_all,
                   summary, outVars, build_error, run, prev>>

\* Lines 146-149: meta.json written, the summary returned.
BuildMeta ==
    /\ build_pc = "build_meta"
    /\ meta' = Some(summary)
    /\ build_pc' = "build_done"
    /\ UNCHANGED <<input_files, build_cfg, rng, twister, todo, sft_eval_all, sft_train_all,
                   summary, lora_eval, lora_train, sft_eval, sft_train, build_error, run, prev>>

\* The operator runs the splitter a second time, after changing at most one
\* file of the input directory or the minimum of the configuration.
BuildAgain ==
    /\ build_pc \in {"build_done", "build_raised"}
    /\ run = 1
    /\ run' = 2
    /\ prev' = [input_files |-> input_files, cfg |-> build_cfg, out |-> Outputs]
    /\ \/ input_files' \in Neighbours(input_files) /\ build_cfg' = build_cfg
       \/ input_files' = input_files /\ build_cfg' \in BuildConfigs
    /\ build_error' = None
    /\ build_pc' = "build_call"
    /\ UNCHANGED <<rng, twister, todo, sft_eval_all, sft_train_all, summary, outVars>>

\* ------------------------------------------- combine_personas (combine.py)

\* The stems of the *.jsonl files PROCESSED_DIR may hold, as sorted() orders
\* their paths.
CombineOrder == <<"brother", "conversations", "mum", "sister">>

CombinePersonas == {"brother", "mum", "sister"}

\* a < b for two of these personas, as Python compares the strings.
PersonaLt(a, b) ==
    \E j, k \in 1..Len(CombineOrder) : j < k /\ CombineOrder[j] = a /\ CombineOrder[k] = b

\* The directories combine_personas first runs in: each persona's file, if
\* there is one, as process_cleaned_file left it.
ProcessedDirs ==
    UNION {[S -> {Rows(stem, n) : stem \in S, n \in 0..MaxCombineRows}] : S \in SUBSET CombinePersonas}

\* Mutant: the key of the sort without the persona.
ConversationKeyLeStartOnly(a, b) == TimestampLe(a.timestamp_start, b.timestamp_start)

\* (a["persona"], a["timestamp_start"]) <= (b["persona"], b["timestamp_start"])
ConversationKeyLe(a, b) ==
    \/ PersonaLt(a.persona, b.persona)
    \/ a.persona = b.persona /\ TimestampLe(a.timestamp_start, b.timestamp_start)

\* c put after the last record of a sorted list whose key is not above its own.
RECURSIVE InsertConversation(_, _)
InsertConversation(sorted, c) ==
    IF sorted = <<>> THEN <<c>>
    ELSE IF ConversationKeyLe(sorted[Len(sorted)], c)
    THEN Append(sorted, c)
    ELSE Append(InsertConversation(SubSeq(sorted, 1, Len(sorted) - 1), c), sorted[Len(sorted)])

\* all_conversations.sort(key=...) (line 43): a stable sort.
RECURSIVE SortConversations(_)
SortConversations(convs) ==
    IF convs = <<>> THEN <<>>
    ELSE InsertConversation(SortConversations(SubSeq(convs, 1, Len(convs) - 1)), convs[Len(convs)])

\* sorted(PROCESSED_DIR.glob("*.jsonl")) (line 17).
GlobJsonl(dir) == SelectSeq(CombineOrder, LAMBDA stem : stem \in DOMAIN dir)

\* Lines 27-36: the records of the files, one file after the other.
RECURSIVE LoadAll(_, _)
LoadAll(dir, stems) ==
    IF stems = <<>> THEN <<>> ELSE dir[Head(stems)] \o LoadAll(dir, Tail(stems))

CombineIdle ==
    /\ processed_dir = EmptyDict
    /\ combine_runs = 0

CombineInit ==
    /\ processed_dir \in {d \in ProcessedDirs : \A stem \in DOMAIN d : \A k \in 1..Len(d[stem]) : d[stem][k].persona = stem}
    /\ combine_runs = 0

\* One run of combine_personas: nothing written when no file or no record is
\* found, else conversations.jsonl written anew.
combine_personas ==
    /\ combine_runs < MaxCombineRuns
    /\ combine_runs' = combine_runs + 1
    /\ LET persona_files == GlobJsonl(processed_dir)
           all_conversations == LoadAll(processed_dir, persona_files)
       IN  IF persona_files = <<>> \/ all_conversations = <<>>
           THEN UNCHANGED processed_dir
           ELSE processed_dir' =
                    ("conversations" :> SortConversations(all_conversations)) @@ processed_dir

\* ---------------------------- ask_llm_about_continuation, called directly

\* The characters of the response texts the adapter is run against.
ContentChars == {"y", "e", "E", "s", "S", "n", " "}

Contents == UNION {[1..n -> ContentChars] : n \in 0..MaxContent}

\* What the network call can come to: no response, a body that is no JSON,
\* or a response with a status and a text.
AskOutcomes ==
    {TransportError, Unparseable} \cup {Response(code, c) : code \in {200, 500}, c \in Contents}

AskMessage(sender, letter) ==
    [timestamp |-> IsoFormat(32400), sender |-> sender, message |-> <<letter>>]

AskIdle ==
    /\ ask_context = <<>>
    /\ ask_candidate = AskMessage("Ada", "b")
    /\ ask_outcome = NoCall
    /\ ask_answer = Return(FALSE)
    /\ ask_pc = "idle"

AskInit ==
    /\ ask_context \in {<<>>, <<AskMessage("Ada", "a")>>}
    /\ ask_candidate = AskMessage("Ada", "b")
    /\ ask_outcome \in AskOutcomes
    /\ ask_answer = Return(FALSE)
    /\ ask_pc = "ask_call"

\* One call of ask_llm_about_continuation.
AskCall ==
    /\ ask_pc = "ask_call"
    /\ ask_answer' = ask_llm_about_continuation(ask_context, ask_candidate, ask_outcome)
    /\ ask_pc' = "ask_done"
    /\ UNCHANGED <<ask_context, ask_candidate, ask_outcome>>

\* ------------------------- process, combine and split over one directory

\* The cleaned files of sister the process runs read: up to MaxPipeMsgs
\* messages, 5 minutes or 5 h 50 min apart.
PipeGaps == {300, 21000}

PipeMessageSeqs(n) ==
    { [k \in 1..n |->
          [timestamp |-> IsoFormat(Instant(32400, g, k)),
           sender |-> s[k],
           message |-> <<Letters[k]>>]] :
      g \in [1..(n - 1) -> PipeGaps], s \in [1..n -> Senders] }

PipeIdle == pipe_runs = 0

\* No stage is running.
StagesAtRest ==
    /\ proc_pc \in {"idle", "proc_done"}
    /\ build_pc \in {"idle", "build_done", "build_raised"}

\* PROCESSED_DIR is empty, or holds brother.jsonl of an earlier process run,
\* with one record.
PipeInit ==
    /\ processed_dir \in {EmptyDict, "brother" :> Rows("brother", 1)}
    /\ combine_runs = 0
    /\ pipe_runs = 0

\* The operator runs the process stage on the cleaned file of sister
\* (core.py main, 292-345).
PipeProcessStart ==
    /\ StagesAtRest
    /\ pipe_runs < MaxPipeRuns
    /\ pipe_runs' = pipe_runs + 1
    /\ cleaned_file' \in UNION {PipeMessageSeqs(n) : n \in 0..MaxPipeMsgs}
    /\ proc_pc' = "proc_call"
    /\ UNCHANGED <<persona_file, chatml_conversations, proc_run, proc_prev>>

\* Lines 270-289 of core.py, the file being PROCESSED_DIR/sister.jsonl.
PipeProcSave ==
    /\ ProcSave
    /\ processed_dir' = ("sister" :> chatml_conversations') @@ processed_dir
    /\ UNCHANGED <<combine_runs, pipe_runs>>

\* The operator runs the combine stage.
PipeCombine ==
    /\ StagesAtRest
    /\ pipe_runs < MaxPipeRuns
    /\ pipe_runs' = pipe_runs + 1
    /\ combine_personas

\* The operator runs the split stage on PROCESSED_DIR
\* (create_eval_datasets.py main, 207-223).
PipeSplitStart ==
    /\ StagesAtRest
    /\ pipe_runs < MaxPipeRuns
    /\ pipe_runs' = pipe_runs + 1
    /\ input_files' = processed_dir
    /\ build_cfg' \in BuildConfigs
    /\ prev' = [input_files |-> input_files, cfg |-> build_cfg, out |-> Outputs]
    /\ build_error' = None
    /\ build_pc' = "build_call"
    /\ UNCHANGED <<rng, twister, todo, sft_eval_all, sft_train_all, summary, outVars, run>>

\* ------------------------------------- the labelling application (core.py
\* of labelling): the state of the process and the manual routes

LabPersonas == {"brother", "sister"}

\* The k-th message of a cleaned file: a minute after the one before, the k-th
\* letter its text.
LabMessage(k, sender) ==
    [timestamp |-> IsoFormat(32400 + 60 * k), sender |-> sender, message |-> <<Letters[k]>>]

LabMessageSeqs(n) == {[k \in 1..n |-> LabMessage(k, s[k])] : s \in [1..n -> Senders]}

\* The k-th message of a persona's VLM data file: with an image, or without.
VlmMessage(persona, k, with_image) ==
    [timestamp |-> IsoFormat(32400 + 60 * k), sender |-> persona,
     image |-> IF with_image THEN Some(<<persona, k>>) ELSE None]

\* What <persona>.json may hold under "messages".
VlmMessageSeqs(persona) ==
    UNION {{[k \in 1..n |-> VlmMessage(persona, k, w[k])] : w \in [1..n -> BOOLEAN]} :
              n \in 0..MaxImages}

NoRequest == "None"

NoResponse == [status |-> 0, body |-> <<>>]

\* jsonify(body), with the status of the response.
Jsonify(status, body) == [status |-> status, body |-> body]

\* The threads that may handle a request each.
Threads == {1, 2}

ThreadIdle == [pc |-> "idle", msg |-> None, index |-> 0, response |-> NoResponse]

\* Lines 42-50: the globals as the module sets them.
GlobalsAtStart ==
    /\ current_mode = "None"
    /\ current_persona = "None"
    /\ all_messages = <<>>
    /\ current_index = 0
    /\ current_conversation = <<>>
    /\ labeled_conversations = <<>>
    /\ vlm_undo_stack = <<>>

LabIdle ==
    /\ GlobalsAtStart
    /\ vlm_cleaned = EmptyDict
    /\ vlm_output_files = EmptyDict
    /\ vlm_progress = EmptyDict
    /\ request = NoRequest
    /\ response = NoResponse
    /\ threads = [t \in Threads |-> ThreadIdle]

\* The state initialize_labeling("manual", persona) leaves (lines 214-266): the
\* messages of the cleaned file, the index of the progress file if an earlier
\* session left one, no conversation in progress.
ManualInit ==
    /\ current_mode = "manual"
    /\ current_persona \in LabPersonas
    /\ all_messages \in UNION {LabMessageSeqs(n) : n \in 0..MaxLabelMsgs}
    /\ current_index \in 0..Len(all_messages)
    /\ current_conversation = <<>>
    /\ labeled_conversations = <<>>
    /\ vlm_undo_stack = <<>>
    /\ vlm_cleaned = EmptyDict
    /\ vlm_output_files = EmptyDict
    /\ vlm_progress = EmptyDict
    /\ request = NoRequest
    /\ response = NoResponse
    /\ threads = [t \in Threads |-> ThreadIdle]

\* GET /api/next-message (lines 352-376).
api_next_message ==
    /\ request' = "next-message"
    /\ response' =
          IF current_index >= Len(all_messages)
          THEN Jsonify(200, [done |-> TRUE, total_labeled |-> Len(labeled_conversations)])
          ELSE LET msg == Py(all_messages, current_index)
               IN  Jsonify(200,
                       [done |-> FALSE,
                        index |-> current_index,
                        total |-> Len(all_messages),
                        message |-> [timestamp |-> msg.timestamp, sender |-> msg.sender,
                                     content |-> msg.message],
                        conversation_size |-> Len(current_conversation) + 1,
                        labeled_count |-> Len(labeled_conversations)])
    /\ UNCHANGED <<current_mode, current_persona, all_messages, current_index,
                   current_conversation, labeled_conversations, vlm_undo_stack, vlm_cleaned,
                   vlm_output_files, vlm_progress, threads>>

\* POST /api/add-to-conversation (lines 378-394), the request handled alone.
api_add_to_conversation ==
    /\ request' = "add-to-conversation"
    /\ IF current_index >= Len(all_messages)
       THEN /\ response' = Jsonify(400, [error |-> "No message to add"])
            /\ UNCHANGED <<current_conversation, current_index>>
       ELSE /\ current_conversation' = Append(current_conversation, Py(all_messages, current_index))
            /\ current_index' = current_index + 1
            /\ response' = Jsonify(200, [success |-> TRUE,
                                         conversation_size |-> Len(current_conversation'),
                                         current_index |-> current_index'])
    /\ UNCHANGED <<current_mode, current_persona, all_messages, labeled_conversations,
                   vlm_undo_stack, vlm_cleaned, vlm_output_files, vlm_progress, threads>>

\* POST /api/undo (lines 416-432).
api_undo ==
    /\ request' = "undo"
    /\ IF Len(current_conversation) = 0
       THEN /\ response' = Jsonify(400, [error |-> "Nothing to undo"])
            /\ UNCHANGED <<current_conversation, current_index>>
       ELSE /\ current_conversation' = SubSeq(current_conversation, 1, Len(current_conversation) - 1)
            /\ current_index' = current_index - 1
            /\ response' = Jsonify(200, [success |-> TRUE,
                                         current_index |-> current_index',
                                         conversation_size |-> Len(current_conversation')])
    /\ UNCHANGED <<current_mode, current_persona, all_messages, labeled_conversations,
                   vlm_undo_stack, vlm_cleaned, vlm_output_files, vlm_progress, threads>>

\* POST /api/skip-message (lines 434-449).
api_skip_message ==
    /\ request' = "skip-message"
    /\ IF current_index >= Len(all_messages)
       THEN /\ response' = Jsonify(400, [error |-> "No more messages"])
            /\ UNCHANGED current_index
       ELSE /\ current_index' = current_index + 1
            /\ response' = Jsonify(200, [success |-> TRUE,
                                         current_index |-> current_index',
                                         total |-> Len(all_messages)])
    /\ UNCHANGED <<current_mode, current_persona, all_messages, current_conversation,
                   labeled_conversations, vlm_undo_stack, vlm_cleaned, vlm_output_files,
                   vlm_progress, threads>>

\* ----------------------------------- the labelling application: VLM routes

\* The personas with VLM data.
VlmPersonas == {"sister"}

\* The JSON bodies a client posts to /api/vlm/save-example: none, or the
\* images, messages and timestamp of an example.
VlmData ==
    {[images |-> <<text>>, messages |-> <<[role |-> "user", content |-> text]>>,
      timestamp |-> IsoFormat(32400)] : text \in {<<"a">>, <<"b">>}}

\* json.dumps(example) + "\n", a line of the file, and json.loads(line).
JsonLine(example) == [json |-> example]

JsonLoads(line) == line.json

\* The process has started, every persona has its data file, and nothing has
\* been labelled yet.
VlmInit ==
    /\ GlobalsAtStart
    /\ vlm_cleaned \in
          {c \in [VlmPersonas -> UNION {VlmMessageSeqs(p) : p \in VlmPersonas}] :
              \A p \in VlmPersonas : c[p] \in VlmMessageSeqs(p)}
    /\ vlm_output_files = EmptyDict
    /\ vlm_progress = EmptyDict
    /\ request = NoRequest
    /\ response = NoResponse
    /\ threads = [t \in Threads |-> ThreadIdle]

\* load_progress(persona) in VLM mode (lines 100-110).
load_progress(persona) ==
    IF persona \in DOMAIN vlm_progress
    THEN vlm_progress[persona]
    ELSE [persona |-> persona, current_index |-> 0]

\* save_progress() in VLM mode (lines 113-130): the file after it, for the
\* index the handler has reached.
save_progress(index) ==
    (current_persona :> [persona |-> current_persona, current_index |-> index]) @@ vlm_progress

\* POST /select-persona in VLM mode (lines 323-338): initialize_labeling("vlm",
\* persona) (lines 214-266).
initialize_labeling ==
    \E persona \in VlmPersonas :
        /\ current_mode' = "vlm"
        /\ current_persona' = persona
        /\ all_messages' = SelectSeq(vlm_cleaned[persona], LAMBDA msg : msg.image # None)
        /\ vlm_undo_stack' =
              IF persona \in DOMAIN vlm_output_files
              THEN [k \in 1..Len(vlm_output_files[persona]) |->
                       JsonLoads(vlm_output_files[persona][k])]
              ELSE <<>>
        /\ current_index' = load_progress(persona).current_index
        /\ current_conversation' = <<>>
        /\ request' = "select-persona"
        /\ response' = Jsonify(302, [location |-> "index"])
        /\ UNCHANGED <<labeled_conversations, vlm_cleaned, vlm_output_files, vlm_progress,
                       threads>>

\* save_vlm_labeled_example(example, persona) (lines 202-211): the files after it.
save_vlm_labeled_example(example, persona) ==
    (persona :> Append(IF persona \in DOMAIN vlm_output_files
                       THEN vlm_output_files[persona] ELSE <<>>,
                       JsonLine(example)))
        @@ vlm_output_files

\* POST /api/vlm/save-example (lines 520-546).
api_vlm_save_example ==
    /\ current_mode = "vlm"
    /\ Len(labeled_conversations) < MaxSaves
    /\ request' = "vlm/save-example"
    /\ \E data \in VlmData \cup {None} :
          IF data = None
          THEN /\ response' = Jsonify(400, [error |-> "No data provided"])
               /\ UNCHANGED <<vlm_output_files, vlm_undo_stack, labeled_conversations,
                              current_index, vlm_progress>>
          ELSE LET example == [images |-> data.images, messages |-> data.messages,
                               persona |-> current_persona, timestamp |-> data.timestamp]
               IN  /\ vlm_output_files' = save_vlm_labeled_example(example, current_persona)
                   /\ vlm_undo_stack' = Append(vlm_undo_stack, example)
                   /\ labeled_conversations' = Append(labeled_conversations, example)
                   /\ current_index' = current_index + 1
                   /\ vlm_progress' = save_progress(current_index')
                   /\ response' = Jsonify(200, [success |-> TRUE,
                                                labeled_count |-> Len(labeled_conversations'),
                                                current_index |-> current_index'])
    /\ UNCHANGED <<current_mode, current_persona, all_messages, current_conversation,
                   vlm_cleaned, threads>>

\* POST /api/vlm/skip-image (lines 548-560).
api_vlm_skip_image ==
    /\ current_mode = "vlm"
    /\ request' = "vlm/skip-image"
    /\ IF current_index >= Len(all_messages)
       THEN /\ response' = Jsonify(400, [error |-> "No more images"])
            /\ UNCHANGED <<current_index, vlm_progress>>
       ELSE /\ current_index' = current_index + 1
            /\ vlm_progress' = save_progress(current_index')
            /\ response' = Jsonify(200, [success |-> TRUE])
    /\ UNCHANGED <<current_mode, current_persona, all_messages, current_conversation,
                   labeled_conversations, vlm_undo_stack, vlm_cleaned, vlm_output_files,
                   threads>>

\* Mutant: the undo pops the stack and leaves the file as it is.
api_vlm_undo_KeepsFile ==
    /\ current_mode = "vlm"
    /\ request' = "vlm/undo"
    /\ IF vlm_undo_stack = <<>>
       THEN /\ response' = Jsonify(400, [error |-> "Nothing to undo"])
            /\ UNCHANGED <<vlm_undo_stack, vlm_output_files, current_index, vlm_progress>>
       ELSE /\ vlm_undo_stack' = SubSeq(vlm_undo_stack, 1, Len(vlm_undo_stack) - 1)
            /\ UNCHANGED vlm_output_files
            /\ current_index' = IF current_index > 0 THEN current_index - 1 ELSE current_index
            /\ vlm_progress' = save_progress(current_index')
            /\ response' = Jsonify(200, [success |-> TRUE,
                                         undo_stack_size |-> Len(vlm_undo_stack'),
                                         current_index |-> current_index'])
    /\ UNCHANGED <<current_mode, current_persona, all_messages, current_conversation,
                   labeled_conversations, vlm_cleaned, threads>>

\* POST /api/vlm/undo (lines 562-591).
api_vlm_undo ==
    /\ current_mode = "vlm"
    /\ request' = "vlm/undo"
    /\ IF vlm_undo_stack = <<>>
       THEN /\ response' = Jsonify(400, [error |-> "Nothing to undo"])
            /\ UNCHANGED <<vlm_undo_stack, vlm_output_files, current_index, vlm_progress>>
       ELSE /\ vlm_undo_stack' = SubSeq(vlm_undo_stack, 1, Len(vlm_undo_stack) - 1)
            /\ vlm_output_files' =
                  (current_persona :> [k \in 1..Len(vlm_undo_stack') |->
                                          JsonLine(vlm_undo_stack'[k])])
                      @@ vlm_output_files
            /\ current_index' = IF current_index > 0 THEN current_index - 1 ELSE current_index
            /\ vlm_progress' = save_progress(current_index')
            /\ response' = Jsonify(200, [success |-> TRUE,
                                         undo_stack_size |-> Len(vlm_undo_stack'),
                                         current_index |-> current_index'])
    /\ UNCHANGED <<current_mode, current_persona, all_messages, current_conversation,
                   labeled_conversations, vlm_cleaned, threads>>

\* ------------- the labelling application: add-to-conversation, one thread
\* per request (lines 378-394), the steps of the handler one by one

\* A fresh manual session, and a POST /api/add-to-conversation arrived for
\* each thread.
RaceInit ==
    /\ current_mode = "manual"
    /\ current_persona \in LabPersonas
    /\ all_messages \in UNION {LabMessageSeqs(n) : n \in 0..MaxLabelMsgs}
    /\ current_index = 0
    /\ current_conversation = <<>>
    /\ labeled_conversations = <<>>
    /\ vlm_undo_stack = <<>>
    /\ vlm_cleaned = EmptyDict
    /\ vlm_output_files = EmptyDict
    /\ vlm_progress = EmptyDict
    /\ request = "add-to-conversation"
    /\ response = NoResponse
    /\ threads = [t \in Threads |-> [ThreadIdle EXCEPT !.pc = "check"]]

\* Line 383-384: the test of current_index, and the refusal.
AddCheck(t) ==
    /\ threads[t].pc = "check"
    /\ threads' =
          IF current_index >= Len(all_messages)
          THEN [threads EXCEPT ![t].pc = "done",
                               ![t].response = Jsonify(400, [error |-> "No message to add"])]
          ELSE [threads EXCEPT ![t].pc = "read"]
    /\ UNCHANGED <<current_index, current_conversation>>

\* Line 386, the argument: all_messages[current_index], an IndexError if the
\* index has moved past the end since the test.
AddRead(t) ==
    /\ threads[t].pc = "read"
    /\ threads' =
          IF current_index >= Len(all_messages)
          THEN [threads EXCEPT ![t].pc = "raised",
                               ![t].response = Jsonify(500, [error |-> "IndexError"])]
          ELSE [threads EXCEPT ![t].pc = "append",
                               ![t].msg = Some(Py(all_messages, current_index))]
    /\ UNCHANGED <<current_index, current_conversation>>

\* Line 386, the call: current_conversation.append(...).
AddAppend(t) ==
    /\ threads[t].pc = "append"
    /\ current_conversation' = Append(current_conversation, threads[t].msg[1])
    /\ threads' = [threads EXCEPT ![t].pc = "load"]
    /\ UNCHANGED current_index

\* Line 387, current_index += 1: the global is read ...
AddLoad(t) ==
    /\ threads[t].pc = "load"
    /\ threads' = [threads EXCEPT ![t].pc = "store", ![t].index = current_index]
    /\ UNCHANGED <<current_index, current_conversation>>

\* ... and written, one more than what was read.
AddStore(t) ==
    /\ threads[t].pc = "store"
    /\ current_index' = threads[t].index + 1
    /\ threads' = [threads EXCEPT ![t].pc = "respond"]
    /\ UNCHANGED current_conversation

\* Lines 389-393: the response.
AddRespond(t) ==
    /\ threads[t].pc = "respond"
    /\ threads' =
          [threads EXCEPT ![t].pc = "done",
                          ![t].response =
                              Jsonify(200, [success |-> TRUE,
                                            conversation_size |-> Len(current_conversation),
                                            current_index |-> current_index])]
    /\ UNCHANGED <<current_index, current_conversation>>

\* What no step of the handler touches.
RaceFrame ==
    UNCHANGED <<current_mode, current_persona, all_messages, labeled_conversations,
                vlm_undo_stack, vlm_cleaned, vlm_output_files, vlm_progress, request, response>>

\* --------------------------------------------------------- specifications

\* A direct call of chunk_by_llm on any message sequence, sorted or not.
Init == SegInit /\ ConvIdle /\ ProcIdle /\ SplitIdle /\ BuildIdle /\ CombineIdle /\ AskIdle /\ PipeIdle /\ LabIdle

Next ==
    \/ ChunkCall /\ UNCHANGED <<convVars, procVars, splitVars, buildVars, combineVars, askVars, pipeVars, labVars>>
    \/ ChunkStep /\ UNCHANGED <<convVars, procVars, splitVars, buildVars, combineVars, askVars, pipeVars, labVars>>
    \/ ChunkReturn /\ UNCHANGED <<convVars, procVars, splitVars, buildVars, combineVars, askVars, pipeVars, labVars>>

Spec == Init /\ [][Next]_vars

\* A direct call of chunk_to_chatml on any chunk.
ConvSpecInit == ConvInit /\ SegIdle /\ ProcIdle /\ SplitIdle /\ BuildIdle /\ CombineIdle /\ AskIdle /\ PipeIdle /\ LabIdle

ConvNext == Convert /\ UNCHANGED <<segVars, procVars, splitVars, buildVars, combineVars, askVars, pipeVars, labVars>>

ConvSpec == ConvSpecInit /\ [][ConvNext]_vars

\* One run of process_cleaned_file on the cleaned file of persona "sister".
ProcSpecInit == ProcInit /\ SegIdle /\ ConvIdle /\ SplitIdle /\ BuildIdle /\ CombineIdle /\ AskIdle /\ PipeIdle /\ LabIdle

ProcNext ==
    \/ ProcLoad /\ UNCHANGED <<convVars, splitVars, buildVars, combineVars, askVars, pipeVars, labVars>>
    \/ ChunkCall /\ UNCHANGED <<convVars, procVars, splitVars, buildVars, combineVars, askVars, pipeVars, labVars>>
    \/ ChunkStep /\ UNCHANGED <<convVars, procVars, splitVars, buildVars, combineVars, askVars, pipeVars, labVars>>
    \/ ChunkReturn /\ UNCHANGED <<convVars, procVars, splitVars, buildVars, combineVars, askVars, pipeVars, labVars>>
    \/ ProcSave /\ UNCHANGED <<convVars, splitVars, buildVars, combineVars, askVars, pipeVars, labVars>>

ProcSpec == ProcSpecInit /\ [][ProcNext]_vars

\* process_cleaned_file run twice in succession on one cleaned file, the
\* oracle free to answer the second run as it likes.
ProcTwiceSpecInit ==
    ProcTwiceInit /\ SegIdle /\ ConvIdle /\ SplitIdle /\ BuildIdle /\ CombineIdle /\ AskIdle /\ PipeIdle /\ LabIdle

ProcTwiceNext ==
    \/ ProcNext
    \/ ProcAgain /\ UNCHANGED <<convVars, splitVars, buildVars, combineVars, askVars, pipeVars, labVars>>

ProcTwiceSpec == ProcTwiceSpecInit /\ [][ProcTwiceNext]_vars

\* A direct call of split_eval on any rows, configuration and shuffle.
SplitSpecInit == SplitInit /\ SegIdle /\ ConvIdle /\ ProcIdle /\ BuildIdle /\ CombineIdle /\ AskIdle /\ PipeIdle /\ LabIdle

SplitNext == SplitEvalCall /\ UNCHANGED <<segVars, convVars, procVars, buildVars, combineVars, askVars, pipeVars, labVars>>

SplitSpec == SplitSpecInit /\ [][SplitNext]_vars

\* Two runs of build_eval_datasets, one after the other, on the same machine.
BuildSpecInit == BuildInit /\ SegIdle /\ ConvIdle /\ ProcIdle /\ SplitIdle /\ CombineIdle /\ AskIdle /\ PipeIdle /\ LabIdle

BuildNext ==
    \/ BuildStart /\ UNCHANGED <<segVars, convVars, procVars, splitVars, combineVars, askVars, pipeVars, labVars>>
    \/ BuildPersona /\ UNCHANGED <<segVars, convVars, procVars, splitVars, combineVars, askVars, pipeVars, labVars>>
    \/ BuildSftEval /\ UNCHANGED <<segVars, convVars, procVars, splitVars, combineVars, askVars, pipeVars, labVars>>
    \/ BuildSftTrain /\ UNCHANGED <<segVars, convVars, procVars, splitVars, combineVars, askVars, pipeVars, labVars>>
    \/ BuildMeta /\ UNCHANGED <<segVars, convVars, procVars, splitVars, combineVars, askVars, pipeVars, labVars>>
    \/ BuildAgain /\ UNCHANGED <<segVars, convVars, procVars, splitVars, combineVars, askVars, pipeVars, labVars>>

BuildSpec == BuildSpecInit /\ [][BuildNext]_vars

\* combine_personas run again and again over one directory.
CombineSpecInit == CombineInit /\ SegIdle /\ ConvIdle /\ ProcIdle /\ SplitIdle /\ BuildIdle /\ AskIdle /\ PipeIdle /\ LabIdle

CombineNext ==
    combine_personas /\ UNCHANGED <<segVars, convVars, procVars, splitVars, buildVars, askVars, pipeVars, labVars>>

CombineSpec == CombineSpecInit /\ [][CombineNext]_vars

\* A direct call of ask_llm_about_continuation against any outcome of the
\* network call.
AskSpecInit ==
    AskInit /\ SegIdle /\ ConvIdle /\ ProcIdle /\ SplitIdle /\ BuildIdle /\ CombineIdle /\ PipeIdle /\ LabIdle

AskNext ==
    AskCall /\ UNCHANGED <<segVars, convVars, procVars, splitVars, buildVars, combineVars, pipeVars, labVars>>

AskSpec == AskSpecInit /\ [][AskNext]_vars

\* A step of build_eval_datasets itself: straight-line code and loops over
\* finite lists, which goes on until it returns or raises.
BuildRunStep ==
    /\ BuildStart \/ BuildPersona \/ BuildSftEval \/ BuildSftTrain \/ BuildMeta
    /\ UNCHANGED <<segVars, convVars, procVars, splitVars, combineVars, askVars, pipeVars, labVars>>

\* The same two runs, a started run never left unfinished; whether the
\* operator runs the splitter again is left open.
BuildFairSpec == BuildSpec /\ WF_vars(BuildRunStep)

\* The three stages run one after the other, in any order, over PROCESSED_DIR.
PipeSpecInit == PipeInit /\ SegIdle /\ ConvIdle /\ ProcIdle /\ SplitIdle /\ BuildIdle /\ AskIdle /\ LabIdle

PipeNext ==
    \/ PipeProcessStart /\ UNCHANGED <<segVars, convVars, splitVars, buildVars, combineVars, askVars, labVars>>
    \/ ProcLoad /\ UNCHANGED <<convVars, splitVars, buildVars, combineVars, askVars, pipeVars, labVars>>
    \/ ChunkCall /\ UNCHANGED <<convVars, procVars, splitVars, buildVars, combineVars, askVars, pipeVars, labVars>>
    \/ ChunkStep /\ UNCHANGED <<convVars, procVars, splitVars, buildVars, combineVars, askVars, pipeVars, labVars>>
    \/ ChunkReturn /\ UNCHANGED <<convVars, procVars, splitVars, buildVars, combineVars, askVars, pipeVars, labVars>>
    \/ PipeProcSave /\ UNCHANGED <<convVars, splitVars, buildVars, askVars, labVars>>
    \/ PipeCombine /\ UNCHANGED <<segVars, convVars, procVars, splitVars, buildVars, askVars, labVars>>
    \/ PipeSplitStart /\ UNCHANGED <<segVars, convVars, procVars, splitVars, combineVars, askVars, labVars>>
    \/ BuildStart /\ UNCHANGED <<segVars, convVars, procVars, splitVars, combineVars, askVars, pipeVars, labVars>>
    \/ BuildPersona /\ UNCHANGED <<segVars, convVars, procVars, splitVars, combineVars, askVars, pipeVars, labVars>>
    \/ BuildSftEval /\ UNCHANGED <<segVars, convVars, procVars, splitVars, combineVars, askVars, pipeVars, labVars>>
    \/ BuildSftTrain /\ UNCHANGED <<segVars, convVars, procVars, splitVars, combineVars, askVars, pipeVars, labVars>>
    \/ BuildMeta /\ UNCHANGED <<segVars, convVars, procVars, splitVars, combineVars, askVars, pipeVars, labVars>>

PipeSpec == PipeSpecInit /\ [][PipeNext]_vars

\* A session of manual labelling, the requests handled one at a time.
ManualSpecInit ==
    ManualInit /\ SegIdle /\ ConvIdle /\ ProcIdle /\ SplitIdle /\ BuildIdle /\ CombineIdle
        /\ AskIdle /\ PipeIdle

ManualNext ==
    \/ api_next_message /\ UNCHANGED <<segVars, convVars, procVars, splitVars, buildVars, combineVars, askVars, pipeVars>>
    \/ api_add_to_conversation /\ UNCHANGED <<segVars, convVars, procVars, splitVars, buildVars, combineVars, askVars, pipeVars>>
    \/ api_undo /\ UNCHANGED <<segVars, convVars, procVars, splitVars, buildVars, combineVars, askVars, pipeVars>>
    \/ api_skip_message /\ UNCHANGED <<segVars, convVars, procVars, splitVars, buildVars, combineVars, askVars, pipeVars>>

ManualSpec == ManualSpecInit /\ [][ManualNext]_vars

\* The labelling process from its start: sessions of VLM labelling, the
\* requests handled one at a time.
VlmSpecInit ==
    VlmInit /\ SegIdle /\ ConvIdle /\ ProcIdle /\ SplitIdle /\ BuildIdle /\ CombineIdle
        /\ AskIdle /\ PipeIdle

VlmNext ==
    \/ initialize_labeling /\ UNCHANGED <<segVars, convVars, procVars, splitVars, buildVars, combineVars, askVars, pipeVars>>
    \/ api_vlm_save_example /\ UNCHANGED <<segVars, convVars, procVars, splitVars, buildVars, combineVars, askVars, pipeVars>>
    \/ api_vlm_skip_image /\ UNCHANGED <<segVars, convVars, procVars, splitVars, buildVars, combineVars, askVars, pipeVars>>
    \/ api_vlm_undo /\ UNCHANGED <<segVars, convVars, procVars, splitVars, buildVars, combineVars, askVars, pipeVars>>

VlmSpec == VlmSpecInit /\ [][VlmNext]_vars

\* Two add-to-conversation requests of a manual session, each handled by a
\* thread of its own, the threads switching between any two steps.
RaceSpecInit ==
    RaceInit /\ SegIdle /\ ConvIdle /\ ProcIdle /\ SplitIdle /\ BuildIdle /\ CombineIdle
        /\ AskIdle /\ PipeIdle

RaceNext ==
    \/ \E t \in Threads : AddCheck(t) /\ RaceFrame /\ UNCHANGED <<segVars, convVars, procVars, splitVars, buildVars, combineVars, askVars, pipeVars>>
    \/ \E t \in Threads : AddRead(t) /\ RaceFrame /\ UNCHANGED <<segVars, convVars, procVars, splitVars, buildVars, combineVars, askVars, pipeVars>>
    \/ \E t \in Threads : AddAppend(t) /\ RaceFrame /\ UNCHANGED <<segVars, convVars, procVars, splitVars, buildVars, combineVars, askVars, pipeVars>>
    \/ \E t \in Threads : AddLoad(t) /\ RaceFrame /\ UNCHANGED <<segVars, convVars, procVars, splitVars, buildVars, combineVars, askVars, pipeVars>>
    \/ \E t \in Threads : AddStore(t) /\ RaceFrame /\ UNCHANGED <<segVars, convVars, procVars, splitVars, buildVars, combineVars, askVars, pipeVars>>
    \/ \E t \in Threads : AddRespond(t) /\ RaceFrame /\ UNCHANGED <<segVars, convVars, procVars, splitVars, buildVars, combineVars, askVars, pipeVars>>

RaceSpec == RaceSpecInit /\ [][RaceNext]_vars

\* ================================================================ claims
\* ------------------------------------------- segmentation, under Spec

RECURSIVE Flatten(_)
Flatten(seqs) == IF seqs = <<>> THEN <<>> ELSE seqs[1] \o Flatten(Tail(seqs))

\* The pair (messages[i-2], messages[i-1]) is the one the loop decided last.
PairDecided == pc \in {"chunk_loop", "chunk_done"} /\ i >= 2

LastPrev == Py(messages, i - 2)

LastCurr == Py(messages, i - 1)

LastGap == FromIsoFormat(LastCurr.timestamp) - FromIsoFormat(LastPrev.timestamp)

\* The later message of that pair was appended to the chunk being built.
LastContinued ==
    /\ Len(current_chunk) >= 2
    /\ current_chunk[Len(current_chunk)] = LastCurr
    /\ current_chunk[Len(current_chunk) - 1] = LastPrev

\* The later message of that pair started a new chunk.
LastSplit == current_chunk = <<LastCurr>>

\* The oracle was called for that pair.
LastAsked == \E k \in 1..Len(oracle_calls) : oracle_calls[k].pair = i - 1

LastOutcome == oracle_calls[Len(oracle_calls)].outcome

AnswersYes(outcome) == outcome = Response(200, YES)

Fails(outcome) == outcome \in {TransportError, Unparseable, Response(500, <<>>)}

\* C1: when chunk_by_llm has returned, the chunks concatenated in order are
\* the input sequence, whatever the oracle answered.
C1_Partition == pc = "chunk_done" => Flatten(result) = messages

C1_Witness ==
    /\ pc = "chunk_done"
    /\ Len(messages) = 3
    /\ Len(result) = 2
    /\ Len(oracle_calls) = 2
    /\ AnswersYes(oracle_calls[1].outcome)
    /\ Fails(oracle_calls[2].outcome)

\* C2 as stated: a pair exactly 15 minutes apart is auto-continued, the later
\* message appended and the oracle not called for it.
C2_ExactGapAutoContinues ==
    (PairDecided /\ LastGap = 15 * 60) => (LastContinued /\ ~LastAsked)

\* C2 amended: a pair exactly 15 minutes apart is not auto-continued; the
\* oracle is called for it, and the later message is appended if the oracle
\* answers yes and starts a new chunk otherwise.
C2_ExactGapAsksOracle ==
    (PairDecided /\ LastGap = 15 * 60) =>
        /\ LastAsked
        /\ IF AnswersYes(LastOutcome) THEN LastContinued ELSE LastSplit

C2_Witness ==
    /\ PairDecided
    /\ LastGap = 15 * 60
    /\ LastAsked
    /\ LastOutcome = Response(200, NO)
    /\ LastSplit

\* C3: a pair whose gap is strictly below 15 minutes is auto-continued with
\* no oracle call, at any hour of day.
C3_ShortGapAutoContinues ==
    (PairDecided /\ LastGap < 15 * 60) => (LastContinued /\ ~LastAsked)

C3_Witness ==
    /\ PairDecided
    /\ LastGap = 5 * 60
    /\ HourOf(LastCurr.timestamp) = 22
    /\ LastContinued
    /\ oracle_calls = <<>>

\* C4: in a loop step on a pair whose gap g has 15 <= g <= 240 minutes, the
\* oracle is called once, with the current chunk as context and the later
\* message as candidate; the later message is appended if the answer is yes,
\* and otherwise the current chunk is finalized and a new one starts with it.
C4_BandAsksOracle ==
    [][ ( /\ pc = "chunk_loop"
          /\ i < Len(messages)
          /\ TimeDiffSeconds(Py(messages, i - 1), Py(messages, i)) >= 15 * 60
          /\ TimeDiffSeconds(Py(messages, i - 1), Py(messages, i)) <= 240 * 60 )
        => /\ Len(oracle_calls') = Len(oracle_calls) + 1
           /\ SubSeq(oracle_calls', 1, Len(oracle_calls)) = oracle_calls
           /\ oracle_calls'[Len(oracle_calls')].context = current_chunk
           /\ oracle_calls'[Len(oracle_calls')].candidate = Py(messages, i)
           /\ IF AnswersYes(oracle_calls'[Len(oracle_calls')].outcome)
              THEN /\ current_chunk' = Append(current_chunk, Py(messages, i))
                   /\ chunks' = chunks
              ELSE /\ chunks' = Append(chunks, current_chunk)
                   /\ current_chunk' = <<Py(messages, i)>>
      ]_vars

C4_Witness ==
    /\ PairDecided
    /\ LastGap = 240 * 60
    /\ HourOf(LastCurr.timestamp) = 13
    /\ LastAsked
    /\ AnswersYes(LastOutcome)
    /\ LastContinued

\* C5: for a pair whose gap exceeds 240 minutes, if the later message's hour
\* is in [0, 10) the oracle is called and its answer decides; otherwise the
\* engine splits with no oracle call.  The earlier message's hour plays no part.
C5_LongGapSleepHours ==
    (PairDecided /\ LastGap > 240 * 60) =>
        IF HourOf(LastCurr.timestamp) \in 0..9
        THEN /\ LastAsked
             /\ IF AnswersYes(LastOutcome) THEN LastContinued ELSE LastSplit
        ELSE /\ ~LastAsked
             /\ LastSplit

\* The earlier message at 09:00 (a sleep hour), the later at 14:00: split,
\* and the oracle never called.
C5_Witness ==
    /\ PairDecided
    /\ LastGap = 5 * 3600
    /\ HourOf(LastPrev.timestamp) = 9
    /\ HourOf(LastCurr.timestamp) = 14
    /\ LastSplit
    /\ oracle_calls = <<>>

\* C6: an oracle call that fails makes the engine split at that pair; nothing
\* is raised, the pass can always take its next step, and when it has returned
\* after a failure it has consumed every message and returned them all.
C6_OracleFailureSplits ==
    /\ pc # "chunk_raised"
    /\ (PairDecided /\ LastAsked /\ Fails(LastOutcome)) => LastSplit
    /\ pc \in {"chunk_call", "chunk_loop"} => ENABLED Next
    /\ (pc = "chunk_done" /\ \E k \in 1..Len(oracle_calls) : Fails(oracle_calls[k].outcome))
           => (i = Len(messages) /\ Flatten(result) = messages)

C6_Witness ==
    /\ pc = "chunk_done"
    /\ Len(oracle_calls) = 2
    /\ oracle_calls[1].outcome = TransportError
    /\ oracle_calls[2].outcome = Unparseable
    /\ Len(result) = 3

\* ----------------------------------------- conversion, under ConvSpec

\* chunk_to_chatml has returned a record.
Emitted == conv_pc = "conv_done" /\ conv # None

Rec == conv[1]

IsUser(msg) == msg.sender # YOUR_NAME

HasUser(chunk) == \E k \in 1..Len(chunk) : IsUser(chunk[k])

\* The position of the first user-role message of a chunk that has one.
FirstUser(chunk) ==
    CHOOSE k \in 1..Len(chunk) : IsUser(chunk[k]) /\ \A j \in 1..(k - 1) : ~IsUser(chunk[j])

\* The chunk without its maximal leading run of assistant-role messages.
Trimmed(chunk) == SubSeq(chunk, FirstUser(chunk), Len(chunk))

\* The texts, each followed by a newline, one after the other.
RECURSIVE Lines(_)
Lines(texts) == IF texts = <<>> THEN <<>> ELSE texts[1] \o <<"\n">> \o Lines(Tail(texts))

\* C7: every record emitted has at least 2 turns, the first of role user.
C7_RecordOpensWithUser ==
    Emitted => (Len(Rec.messages) >= 2 /\ Rec.messages[1].role = "user")

\* [assistant, assistant, user, assistant] is converted.
C7_Witness ==
    /\ Emitted
    /\ Len(conv_chunk) = 4
    /\ ~IsUser(conv_chunk[1])
    /\ ~IsUser(conv_chunk[2])
    /\ IsUser(conv_chunk[3])
    /\ ~IsUser(conv_chunk[4])
    /\ Len(Rec.messages) = 2

\* C8: a chunk with no user-role message is rejected; a record emitted holds,
\* in order, the texts of the chunk from its first user-role message on, each
\* exactly once, and none of the leading assistant-role messages before it.
C8_TrimsLeadingAssistantRun ==
    conv_pc = "conv_done" =>
        /\ ~HasUser(conv_chunk) => conv = None
        /\ conv # None =>
              /\ HasUser(conv_chunk)
              /\ Lines([k \in 1..Len(Rec.messages) |-> Rec.messages[k].content])
                     = Lines([k \in 1..Len(Trimmed(conv_chunk)) |-> Trimmed(conv_chunk)[k].message])
              /\ Rec.messages[1].role = "user"

\* Two leading assistant-role messages are dropped and the other two kept.
C8_Witness ==
    /\ Emitted
    /\ Len(conv_chunk) = 4
    /\ FirstUser(conv_chunk) = 3
    /\ Lines([k \in 1..Len(Rec.messages) |-> Rec.messages[k].content])
           = conv_chunk[3].message \o <<"\n">> \o conv_chunk[4].message \o <<"\n">>

\* C9: every record emitted has an assistant-role turn, and a chunk whose
\* messages after trimming are all of role user yields no record.
C9_RecordHasAssistantTurn ==
    conv_pc = "conv_done" =>
        /\ conv # None => \E k \in 1..Len(Rec.messages) : Rec.messages[k].role = "assistant"
        /\ ( /\ HasUser(conv_chunk)
             /\ \A k \in 1..Len(Trimmed(conv_chunk)) : IsUser(Trimmed(conv_chunk)[k]) )
           => conv = None

\* [assistant, user, user] is rejected.
C9_Witness ==
    /\ conv_pc = "conv_done"
    /\ conv = None
    /\ Len(conv_chunk) = 3
    /\ ~IsUser(conv_chunk[1])
    /\ IsUser(conv_chunk[2])
    /\ IsUser(conv_chunk[3])

\* The positions of the trimmed chunk where a maximal same-role run starts.
RunStarts(tr) == {k \in 1..Len(tr) : k = 1 \/ IsUser(tr[k]) # IsUser(tr[k - 1])}

\* The j-th of them, and the position where the j-th run ends.
RunStart(tr, j) ==
    CHOOSE a \in RunStarts(tr) : Cardinality({b \in RunStarts(tr) : b < a}) = j - 1

RunEnd(tr, j) ==
    IF j = Cardinality(RunStarts(tr)) THEN Len(tr) ELSE RunStart(tr, j + 1) - 1

\* The texts joined by newlines.
RECURSIVE NewlineJoined(_)
NewlineJoined(texts) ==
    IF Len(texts) = 1 THEN texts[1]
    ELSE NewlineJoined(SubSeq(texts, 1, Len(texts) - 1)) \o <<"\n">> \o texts[Len(texts)]

C11_RecordTimestamps ==
    Emitted =>
        /\ Rec.timestamp_start = Trimmed(conv_chunk)[1].timestamp
        /\ Rec.timestamp_end = conv_chunk[Len(conv_chunk)].timestamp
        /\ \A k \in 1..(FirstUser(conv_chunk) - 1) :
              Rec.timestamp_start # conv_chunk[k].timestamp

\* Two messages trimmed: the record starts at the third message's minute.
C11_Witness ==
    /\ Emitted
    /\ Len(conv_chunk) = 4
    /\ FirstUser(conv_chunk) = 3
    /\ Rec.timestamp_start = <<0, 9, 3, 0>>
    /\ Rec.timestamp_end = <<0, 9, 4, 0>>

\* C13: chunk_by_llm on no message returns no chunk, on one message returns
\* one chunk holding that message, and in both cases calls the oracle never.
C13_DegenerateInputs ==
    pc = "chunk_done" =>
        /\ Len(messages) = 0 => (result = <<>> /\ oracle_calls = <<>>)
        /\ Len(messages) = 1 =>
              (Len(result) = 1 /\ result[1] = <<messages[1]>> /\ oracle_calls = <<>>)

C13_Witness ==
    /\ pc = "chunk_done"
    /\ Len(messages) = 1
    /\ result = <<messages>>
    /\ oracle_calls = <<>>

\* ------------------------------------------- the pipeline, under ProcSpec

\* The cleaned file holds messages at 09:00, 09:05, 09:10 and 15:00 of one day.
EndToEndScenario ==
    /\ Len(cleaned_file) = 4
    /\ cleaned_file[1].timestamp = <<0, 9, 0, 0>>
    /\ cleaned_file[2].timestamp = <<0, 9, 5, 0>>
    /\ cleaned_file[3].timestamp = <<0, 9, 10, 0>>
    /\ cleaned_file[4].timestamp = <<0, 15, 0, 0>>

\* C12: on that file the engine, calling the oracle never, returns exactly 2
\* chunks, of the first 3 messages and of the last one, and the converter
\* rejects the chunk of one message: no record of the run reaches 15:00.
C12_EndToEnd ==
    EndToEndScenario =>
        /\ oracle_calls = <<>>
        /\ pc = "chunk_done" =>
              /\ Len(result) = 2
              /\ result[1] = SubSeq(cleaned_file, 1, 3)
              /\ result[2] = <<cleaned_file[4]>>
        /\ proc_pc = "proc_done" =>
              /\ pc = "chunk_done"
              /\ chunk_to_chatml(result[2], "sister") = None
              /\ Len(chatml_conversations) <= 1
              /\ \A k \in 1..Len(chatml_conversations) :
                    chatml_conversations[k].timestamp_end = <<0, 9, 10, 0>>
              /\ persona_file = Some(chatml_conversations)

\* The run is over, and the chunk of 3 messages made the file's one record.
C12_Witness ==
    /\ EndToEndScenario
    /\ proc_pc = "proc_done"
    /\ Len(result) = 2
    /\ Len(chatml_conversations) = 1
    /\ persona_file = Some(chatml_conversations)

\* ---------------------------------------------------- claims on split_eval

Abs(x) == IF x < 0 THEN 0 - x ELSE x

Range(seq) == {seq[j] : j \in 1..Len(seq)}

\* The positions of S, smallest first.
Ascending(S) ==
    CHOOSE f \in [1..Cardinality(S) -> S] :
        \A a, b \in 1..Cardinality(S) : a < b => f[a] < f[b]

\* The rows of the call at the positions of S, in the order of the rows.
Selected(S) == [j \in 1..Cardinality(S) |-> split_rows[Ascending(S)[j]]]

\* The positions (from 1) the shuffle put first, as many as the eval subset has.
EvalPositions == {indices[j] + 1 : j \in 1..Len(eval_rows)}

\* C14: split_eval returns an eval subset and a train subset that are disjoint,
\* together hold every input record exactly once, and each list their records
\* in the order of the input, whatever the permutation drawn; an empty input
\* gives two empty subsets.
C14_SplitPartitionsInOrder ==
    split_pc = "split_done" =>
        /\ eval_rows = Selected(EvalPositions)
        /\ remaining_rows = Selected((1..Len(split_rows)) \ EvalPositions)
        /\ Range(eval_rows) \cap Range(remaining_rows) = {}
        /\ Range(eval_rows) \cup Range(remaining_rows) = Range(split_rows)
        /\ Len(eval_rows) + Len(remaining_rows) = Len(split_rows)
        /\ split_rows = <<>> => eval_rows = <<>> /\ remaining_rows = <<>>

\* A split of 4 rows whose shuffle put a later row before an earlier one, both
\* of them in the eval subset, with rows left for training.
C14_Witness ==
    /\ split_pc = "split_done"
    /\ Len(split_rows) = 4
    /\ Len(eval_rows) = 2
    /\ Len(remaining_rows) = 2
    /\ indices[1] > indices[2]

\* round(a / b) by its meaning: the nearest integer, the even one of two
\* equally near.
NearestInteger(a, b) ==
    CHOOSE k \in 0..a :
        \/ 2 * Abs(a - k * b) < b
        \/ 2 * Abs(a - k * b) = b /\ k % 2 = 0

\* min(max(round(n * eval_ratio), min_eval_per_persona), n), capped at the
\* maximum when there is one.
ClaimedSize(n, cfg) ==
    LET clamped == Min(Max(NearestInteger(n * cfg.eval_ratio[1], cfg.eval_ratio[2]),
                           cfg.min_eval_per_persona), n)
    IN  IF cfg.max_eval_per_persona = None THEN clamped
        ELSE Min(clamped, cfg.max_eval_per_persona[1])

\* C15: the eval subset of n rows has min(max(round(n * eval_ratio),
\* min_eval_per_persona), n) records, capped at max_eval_per_persona when one
\* is configured; 40 rows at ratio 0.1 and minimum 25 give 25, and 300 rows give 30.
C15_EvalSubsetSize ==
    /\ split_pc = "split_done" =>
          Len(eval_rows) = ClaimedSize(Len(split_rows), split_cfg)
    /\ Desired(40, Config(42, <<1, 10>>, 25, None)) = 25
    /\ Desired(300, Config(42, <<1, 10>>, 25, None)) = 30

\* A split of 3 rows at ratio 1/2 where the rounding of 1.5 to 2 decides the size.
C15_Witness ==
    /\ split_pc = "split_done"
    /\ Len(split_rows) = 3
    /\ split_cfg.eval_ratio = <<1, 2>>
    /\ split_cfg.min_eval_per_persona <= 1
    /\ split_cfg.max_eval_per_persona = None
    /\ Len(eval_rows) = 2

MaxBelowMin ==
    /\ split_cfg.max_eval_per_persona # None
    /\ split_cfg.max_eval_per_persona[1] < split_cfg.min_eval_per_persona

\* C16: with max_eval_per_persona below min_eval_per_persona the split
\* returns, and the maximum wins: the eval subset has min(maximum, n) records.
C16_MaxBelowMinMaxWins ==
    (split_pc = "split_done" /\ MaxBelowMin) =>
        /\ Len(eval_rows) = Min(split_cfg.max_eval_per_persona[1], Len(split_rows))
        /\ Len(remaining_rows) = Len(split_rows) - Len(eval_rows)

\* A split of 4 rows with minimum 2 and maximum 1 returned 1 eval row.
C16_Witness ==
    /\ split_pc = "split_done"
    /\ MaxBelowMin
    /\ Len(split_rows) = 4
    /\ split_cfg.min_eval_per_persona = 2
    /\ split_cfg.max_eval_per_persona = Some(1)
    /\ Len(eval_rows) = 1

\* ------------------------------------------- claims on build_eval_datasets

PersonaStems == Stems \ {"conversations"}

\* The persona files of a directory: everything but conversations.jsonl.
PersonaFiles(dir) == [stem \in DOMAIN dir \cap PersonaStems |-> dir[stem]]

\* The second run has the persona files and the configuration of the first.
SameRunAgain ==
    /\ run = 2
    /\ PersonaFiles(input_files) = PersonaFiles(prev.input_files)
    /\ build_cfg.seed = prev.cfg.seed
    /\ build_cfg.eval_ratio = prev.cfg.eval_ratio
    /\ build_cfg.min_eval_per_persona = prev.cfg.min_eval_per_persona
    /\ build_cfg.max_eval_per_persona = prev.cfg.max_eval_per_persona

\* C17: a second run of the splitter on identical persona files with identical
\* seed, ratio, minimum and maximum leaves every output partition (per-persona
\* eval, per-persona train, combined eval, combined train) with the contents,
\* record order included, that the first run gave it.
C17_RunsReproducible ==
    (SameRunAgain /\ build_pc = "build_done") =>
        /\ lora_eval = prev.out.lora_eval
        /\ lora_train = prev.out.lora_train
        /\ sft_eval = prev.out.sft_eval
        /\ sft_train = prev.out.sft_train

\* Both runs are over, on the same two persona files of 2 records each, so that
\* every split and both pools were shuffled.
C17_Witness ==
    /\ SameRunAgain
    /\ build_pc = "build_done"
    /\ \A stem \in PersonaStems : stem \in DOMAIN input_files /\ Len(input_files[stem]) = 2
    /\ Len(sft_eval[1]) = 2
    /\ Len(sft_train[1]) = 2

\* Persona is in both runs, with the same records, under the same configuration.
SamePersona(persona) ==
    /\ run = 2
    /\ persona \in DOMAIN input_files
    /\ persona \in DOMAIN prev.input_files
    /\ input_files[persona] = prev.input_files[persona]
    /\ build_cfg = prev.cfg

\* C18: the per-persona eval and train partitions of a persona are the same in
\* two runs with the same seed and the same records of that persona, whatever
\* other personas were added, removed or changed in between.
C18_PersonaSplitIndependent ==
    build_pc = "build_done" =>
        \A persona \in PersonaStems :
            SamePersona(persona) =>
                /\ lora_eval[persona] = prev.out.lora_eval[persona]
                /\ lora_train[persona] = prev.out.lora_train[persona]

\* The file of 2 records of sister was split in both runs, the first time
\* after a brother file of 2 records, the second time alone.
C18_Witness ==
    /\ build_pc = "build_done"
    /\ SamePersona("sister")
    /\ Len(input_files["sister"]) = 2
    /\ Len(lora_eval["sister"]) = 1
    /\ "brother" \in DOMAIN prev.input_files
    /\ Len(prev.input_files["brother"]) = 2
    /\ "brother" \notin DOMAIN input_files

Count(x, seq) == Cardinality({j \in 1..Len(seq) : seq[j] = x})

IsPermutation(a, b) ==
    /\ Len(a) = Len(b)
    /\ \A x \in Range(a) \cup Range(b) : Count(x, a) = Count(x, b)

\* The files named by the stems of the input directory, one after the other.
RECURSIVE Concatenated(_, _)
Concatenated(files, stems) ==
    IF stems = <<>> THEN <<>> ELSE files[Head(stems)] \o Concatenated(files, Tail(stems))

PersonasOfRun == SelectSeq(StemOrder, LAMBDA stem : stem \in DOMAIN PersonaFiles(input_files))

\* C19: after a run the combined eval partition is a permutation of the
\* per-persona eval subsets put together, the combined train partition one of
\* the per-persona train subsets, and every input record is exactly once in
\* combined eval or combined train, never in both.
C19_CombinedPartitions ==
    build_pc = "build_done" =>
        /\ IsPermutation(sft_eval[1], Concatenated(lora_eval, PersonasOfRun))
        /\ IsPermutation(sft_train[1], Concatenated(lora_train, PersonasOfRun))
        /\ \A row \in Range(Concatenated(input_files, PersonasOfRun)) :
              Count(row, sft_eval[1]) + Count(row, sft_train[1]) = 1
        /\ Len(sft_eval[1]) + Len(sft_train[1]) = Len(Concatenated(input_files, PersonasOfRun))

\* A run over two persona files of 2 records each whose combined eval
\* partition lists sister's record before brother's.
C19_Witness ==
    /\ build_pc = "build_done"
    /\ \A stem \in PersonaStems : stem \in DOMAIN input_files /\ Len(input_files[stem]) = 2
    /\ Len(sft_eval[1]) = 2
    /\ sft_eval[1][1].persona = "sister"
    /\ sft_eval[1][2].persona = "brother"

\* C20: a splitter that finds no persona file raises an error naming the
\* input directory, and no partition file and no summary has been written:
\* the outputs are what they were when the run began.
C20_NoPersonaFilesFatal ==
    (build_pc # "build_call" /\ discover_persona_files(input_files) = <<>>) =>
        /\ build_pc = "build_raised"
        /\ build_error # None
        /\ build_error[1].type = "FileNotFoundError"
        /\ \E j \in 1..Len(build_error[1].message) : build_error[1].message[j] = build_cfg.input_dir
        /\ Outputs = prev.out

\* The second run raised on a directory holding conversations.jsonl alone,
\* over the outputs the first run had written.
C20_Witness ==
    /\ run = 2
    /\ build_pc = "build_raised"
    /\ DOMAIN input_files = {"conversations"}
    /\ prev.out.meta # None
    /\ meta = prev.out.meta

\* ------------------------------- claims on the splitter's run, BuildFairSpec

RunStarted(r) == run = r /\ build_pc = "build_call"

\* Run r is over, meta.json holding the summary of that run with an entry
\* for every persona file found.
RunSummarised(r) ==
    /\ run = r
    /\ build_pc = "build_done"
    /\ meta = Some(summary)
    /\ DOMAIN summary.personas = DOMAIN PersonaFiles(input_files)
    /\ "sft" \in DOMAIN summary

\* Run r is over with the error, meta.json what it was before the run.
RunFailed(r) ==
    /\ run = r
    /\ build_pc = "build_raised"
    /\ build_error # None
    /\ meta = prev.out.meta

\* C21 (as the code has it): a run of the split stage that finds at least one
\* persona file completes with the run summary written; a run that finds none
\* ends with the error of C20 and writes no summary.
C21_RunEndsSummarisedOrFailed ==
    /\ (RunStarted(1) /\ PersonasOfRun # <<>>) ~> RunSummarised(1)
    /\ (RunStarted(2) /\ PersonasOfRun # <<>>) ~> RunSummarised(2)
    /\ (RunStarted(1) /\ PersonasOfRun = <<>>) ~> RunFailed(1)
    /\ (RunStarted(2) /\ PersonasOfRun = <<>>) ~> RunFailed(2)

\* C21 as claimed: every run completes with the run summary written, whatever
\* persona files it finds.
C21_EveryRunWritesSummary ==
    /\ RunStarted(1) ~> RunSummarised(1)
    /\ RunStarted(2) ~> RunSummarised(2)

\* The first run is over, its summary in meta.json counting both persona
\* files of 2 records.
C21_Witness ==
    /\ RunSummarised(1)
    /\ DOMAIN summary.personas = PersonaStems
    /\ \A stem \in PersonaStems : summary.personas[stem].total = 2
    /\ summary.sft.eval_total + summary.sft.train_total = 4

\* --------------------------------- claims on unsorted input, under ProcSpec

\* Some message of the sequence is earlier than the one before it.
Unsorted(msgs) ==
    \E k \in 1..(Len(msgs) - 1) :
        FromIsoFormat(msgs[k + 1].timestamp) < FromIsoFormat(msgs[k].timestamp)

\* Where the message stands in the cleaned file.
PlaceInFile(m) == CHOOSE k \in 1..Len(cleaned_file) : cleaned_file[k] = m

\* msgs holds the messages of the cleaned file in ascending order of time,
\* those of one instant in the order of the file.
SortedFromFile(msgs) ==
    /\ IsPermutation(msgs, cleaned_file)
    /\ \A a, b \in 1..Len(msgs) :
          a < b =>
              \/ FromIsoFormat(msgs[a].timestamp) < FromIsoFormat(msgs[b].timestamp)
              \/ /\ msgs[a].timestamp = msgs[b].timestamp
                 /\ PlaceInFile(msgs[a]) < PlaceInFile(msgs[b])

\* C22 (as the code has it): a cleaned file whose messages are not in ascending
\* order of timestamp is no error: process_cleaned_file sorts them, segments
\* the sorted sequence and writes the persona's records.
C22_UnsortedIsSortedAndSegmented ==
    (Unsorted(cleaned_file) /\ proc_pc \in {"proc_chunking", "proc_done"}) =>
        /\ SortedFromFile(messages)
        /\ ~Unsorted(messages)
        /\ pc # "chunk_raised"
        /\ proc_pc = "proc_done" =>
              /\ pc = "chunk_done"
              /\ Flatten(result) = messages
              /\ persona_file = Some(chatml_conversations)

\* C22 as claimed: an unsorted sequence stops the run; it is neither repaired
\* nor segmented, and no record file comes of it.
C22_UnsortedIsFatal ==
    Unsorted(cleaned_file) =>
        /\ proc_pc = "proc_call"
        /\ pc = "idle"
        /\ persona_file = None

\* A file of 3 messages, the second the earliest, was sorted, segmented into
\* chunks and saved.
C22_Witness ==
    /\ Len(cleaned_file) = 3
    /\ FromIsoFormat(cleaned_file[2].timestamp) < FromIsoFormat(cleaned_file[1].timestamp)
    /\ proc_pc = "proc_done"
    /\ messages[1] = cleaned_file[2]
    /\ Flatten(result) = messages
    /\ persona_file # None

\* ------------------------------------- claims on combine_personas, CombineSpec

\* The records of the persona files, conversations.jsonl not among them.
PersonaRecords ==
    LoadAll(processed_dir,
            SelectSeq(CombineOrder, LAMBDA stem : stem \in DOMAIN processed_dir \cap CombinePersonas))

\* What conversations.jsonl holds, nothing if there is no such file.
CombinedFile ==
    IF "conversations" \in DOMAIN processed_dir THEN processed_dir["conversations"] ELSE <<>>

\* C23 as claimed: however many times the combine step has run over the
\* persona files, every record of every persona file is in conversations.jsonl
\* exactly once, and nothing else is.
C23_CombineIdempotent ==
    combine_runs >= 1 =>
        /\ Len(CombinedFile) = Len(PersonaRecords)
        /\ \A c \in Range(PersonaRecords) : Count(c, CombinedFile) = 1

\* What the code does: after n runs over unchanged persona files every record
\* is in conversations.jsonl n times, the file of run n - 1 having been read
\* by run n as one more persona file.
C23_Witness ==
    /\ combine_runs = 2
    /\ Len(PersonaRecords) = 1
    /\ Len(CombinedFile) = 2
    /\ CombinedFile[1] = CombinedFile[2]

ConversationsSorted(convs) ==
    \A a, b \in 1..Len(convs) :
        a < b =>
            \/ PersonaLt(convs[a].persona, convs[b].persona)
            \/ /\ convs[a].persona = convs[b].persona
               /\ FromIsoFormat(convs[a].timestamp_start) <= FromIsoFormat(convs[b].timestamp_start)

\* C24: after the combine step the combined file lists its records in
\* ascending order of persona and, within a persona, of timestamp_start.
C24_CombinedFileSorted ==
    combine_runs >= 1 =>
        /\ ConversationsSorted(CombinedFile)
        /\ PersonaRecords # <<>> =>
              /\ "conversations" \in DOMAIN processed_dir
              /\ Range(CombinedFile) = Range(PersonaRecords)

\* One run over three persona files of 2 records each.
C24_Witness ==
    /\ combine_runs = 1
    /\ \A stem \in CombinePersonas : stem \in DOMAIN processed_dir /\ Len(processed_dir[stem]) = 2
    /\ Len(CombinedFile) = 6
    /\ CombinedFile[1].persona = "brother"
    /\ CombinedFile[3].persona = "mum"
    /\ CombinedFile[6].persona = "sister"

\* ------------------------- claims on processing twice, under ProcTwiceSpec

\* The yes and no the adapter gave to the calls of a run, in order.
AnswersOf(calls) ==
    [k \in 1..Len(calls) |->
        ask_llm_about_continuation(calls[k].context, calls[k].candidate, calls[k].outcome).value]

\* The second run is over, and the oracle answered it as it answered the first.
SecondRunSameAnswers ==
    /\ proc_run = 2
    /\ proc_pc = "proc_done"
    /\ AnswersOf(oracle_calls) = AnswersOf(proc_prev.calls)

\* C25: after a second run on the same cleaned input with the same oracle
\* answers the persona's record file holds exactly the records of one run, those
\* the first run had left in it; whatever the answers, it holds the records of
\* the second run and nothing of the first.
C25_SecondRunOverwrites ==
    (proc_run = 2 /\ proc_pc = "proc_done") =>
        /\ cleaned_file # <<>> => persona_file = Some(chatml_conversations)
        /\ SecondRunSameAnswers => persona_file = proc_prev.file

\* Both runs made one record of the same 3 messages, the oracle asked in each
\* and answering yes.
C25_Witness ==
    /\ SecondRunSameAnswers
    /\ Len(cleaned_file) = 3
    /\ Len(oracle_calls) >= 1
    /\ AnswersOf(oracle_calls)[1]
    /\ persona_file # None
    /\ Len(persona_file[1]) = 1
    /\ persona_file = proc_prev.file

\* ------------------------------------- claims on the adapter, under AskSpec

\* The text holds y, e, s in a row, each in either case.
HasYesInAnyCase(text) ==
    \E k \in 1..(Len(text) - 2) :
        /\ text[k] \in {"y", "Y"}
        /\ text[k + 1] \in {"e", "E"}
        /\ text[k + 2] \in {"s", "S"}

\* The call was made and came back with status 200 and a text.
CallSucceeded ==
    /\ ask_context # <<>>
    /\ ask_outcome.kind = "response"
    /\ ask_outcome.status_code = 200

\* C26: the adapter answers yes if and only if the call succeeded and the
\* response text, its case put aside, contains YES; it answers no to every
\* other text and outcome, and raises nothing.
C26_YesIffSucceededAndContainsYes ==
    ask_pc = "ask_done" =>
        /\ ~ask_answer.raised
        /\ ask_answer.value <=> (CallSucceeded /\ HasYesInAnyCase(ask_outcome.content))

\* The adapter answered yes to a 200 response reading " yEs".
C26_Witness ==
    /\ ask_pc = "ask_done"
    /\ ask_answer = Return(TRUE)
    /\ ask_outcome = Response(200, <<" ", "y", "E", "s">>)

\* ------------------------------- claims on the oracle's calls, under Spec

\* Seconds from the j-th message to the next.
GapAfter(j) == FromIsoFormat(messages[j + 1].timestamp) - FromIsoFormat(messages[j].timestamp)

\* The pair of the j-th message and the next is one for the oracle: 15 to 240
\* minutes apart, or more than 240 with the later message in the hours 0 to 9.
ForOracle(j) ==
    \/ 15 * 60 <= GapAfter(j) /\ GapAfter(j) <= 240 * 60
    \/ 240 * 60 < GapAfter(j) /\ messages[j + 1].timestamp[2] \in 0..9

CallsFor(j) == {k \in 1..Len(oracle_calls) : oracle_calls[k].pair = j}

\* C27: at every point of a segmentation pass the oracle has been called
\* exactly once for each pair decided so far that is one for the oracle, failed
\* calls included, and never for another pair, in the order of the pairs; so
\* there are never more calls than len(messages) - 1.
C27_OneCallPerOraclePair ==
    /\ \A j \in 1..(i - 1) : Cardinality(CallsFor(j)) = IF ForOracle(j) THEN 1 ELSE 0
    /\ \A k \in 1..Len(oracle_calls) : oracle_calls[k].pair \in 1..(i - 1)
    /\ \A k \in 1..(Len(oracle_calls) - 1) : oracle_calls[k].pair < oracle_calls[k + 1].pair
    /\ messages # <<>> => Len(oracle_calls) <= Len(messages) - 1
    /\ messages = <<>> => oracle_calls = <<>>

\* A pass over 3 messages is over: the call for the first pair failed and was
\* the only call, the second pair being 5 minutes apart.
C27_Witness ==
    /\ pc = "chunk_done"
    /\ Len(messages) = 3
    /\ ForOracle(1)
    /\ GapAfter(2) = 300
    /\ Len(oracle_calls) = 1
    /\ oracle_calls[1].pair = 1
    /\ oracle_calls[1].outcome = TransportError

\* The role the Converter derives for a sender, written as the prompt writes
\* its labels.
ConverterLabel(msg) == IF RoleOf(msg) = "assistant" THEN "Assistant" ELSE "User"

\* C28: in the prompt of every call, each message of the context and the
\* candidate carry the label of the role the Converter derives for the sender:
\* Assistant exactly for the self identity, User otherwise.
C28_PromptLabelsAreConverterRoles ==
    \A k \in 1..Len(oracle_calls) :
        LET call == oracle_calls[k]
        IN  /\ \A n \in 1..Len(call.labels.context) :
                  call.labels.context[n] = ConverterLabel(LastTen(call.context)[n])
            /\ call.labels.candidate = ConverterLabel(call.candidate)

\* The oracle was asked about a chunk that starts with a message of the self
\* identity, answered by the other sender.
C28_Witness ==
    /\ oracle_calls # <<>>
    /\ LastOutcome # NoCall
    /\ oracle_calls[Len(oracle_calls)].context[1].sender = YOUR_NAME
    /\ oracle_calls[Len(oracle_calls)].candidate.sender # YOUR_NAME
    /\ oracle_calls[Len(oracle_calls)].labels.context[1] = "User"
    /\ oracle_calls[Len(oracle_calls)].labels.candidate = "Assistant"

\* -------------------------------------- claims on the chunks, under Spec

\* The finalized chunks and the chunk being built are the messages consumed
\* so far, cut into non-empty pieces.
ChunksCoverConsumed ==
    pc = "chunk_loop" =>
        /\ Flatten(chunks) \o current_chunk = SubSeq(messages, 1, i)
        /\ current_chunk # <<>>
        /\ \A k \in 1..Len(chunks) : chunks[k] # <<>>

\* A step of the pass leaves every finalized chunk where and as it was.
FinalizedKept ==
    pc = "chunk_loop" =>
        /\ Len(chunks) <= Len(chunks')
        /\ SubSeq(chunks', 1, Len(chunks)) = chunks

\* C29: at every step of the pass the finalized chunks followed by the current
\* chunk are exactly the messages consumed so far, the current chunk and every
\* finalized chunk are non-empty, and no step changes a finalized chunk.
C29_ChunksPartitionConsumedPrefix == []ChunksCoverConsumed /\ [][FinalizedKept]_vars

\* The pass has split twice: two chunks are finalized and a third is being
\* built.
C29_Witness ==
    /\ pc = "chunk_loop"
    /\ Len(chunks) = 2
    /\ i = 3
    /\ Len(current_chunk) = 1

\* The loop is about to decide a pair whose later message carries the earlier
\* timestamp.
AtNegativeGap == pc = "chunk_loop" /\ i < Len(messages) /\ GapAfter(i) < 0

\* C30: the step on a pair with a negative gap appends the later message to
\* the current chunk and goes on: no oracle call, no split, no error.
C30_NegativeGapAutoContinues ==
    [][AtNegativeGap =>
          /\ pc' = "chunk_loop"
          /\ i' = i + 1
          /\ current_chunk' = Append(current_chunk, Py(messages, i))
          /\ UNCHANGED <<chunks, oracle_calls>>]_vars

\* A pass is over whose second message is 5 minutes before the first: one
\* chunk holds both, and the oracle was not called.
C30_Witness ==
    /\ pc = "chunk_done"
    /\ Len(messages) = 2
    /\ GapAfter(1) = -300
    /\ result = <<messages>>
    /\ oracle_calls = <<>>

\* ------------------------------ claims on the splitter's generators, BuildSpec

\* The generator of the run as line 69 makes it, nothing drawn from it yet.
GlobalFresh == rng = [seed |-> IntSeed(build_cfg.seed), drawn |-> <<>>]

\* What the generator of the run has drawn once it shuffled pools of the
\* lengths of sizes, one after the other: a pool of fewer than 2 draws nothing.
DrawsFor(sizes) == SelectSeq(sizes, LAMBDA n : n >= 2)

\* A persona is split: the generator of the run stays as it is, and no
\* combined pool is shuffled or written.
PersonaStepLeavesGlobal ==
    (build_pc = "build_personas" /\ todo # <<>>) =>
        /\ GlobalFresh
        /\ rng' = rng
        /\ UNCHANGED <<sft_eval, sft_train>>
        /\ SubSeq(sft_eval_all', 1, Len(sft_eval_all)) = sft_eval_all
        /\ SubSeq(sft_train_all', 1, Len(sft_train_all)) = sft_train_all

\* The combined eval pool is shuffled: no persona is left to split, the draw is
\* the first of the generator of the run, and the train pool is not yet touched.
EvalShuffledFirst ==
    (build_pc = "build_personas" /\ build_pc' = "build_sft_train") =>
        /\ todo = <<>>
        /\ GlobalFresh
        /\ rng'.seed = IntSeed(build_cfg.seed)
        /\ rng'.drawn = DrawsFor(<<Len(sft_eval_all)>>)
        /\ IsPermutation(sft_eval_all', sft_eval_all)
        /\ UNCHANGED <<sft_train, sft_train_all>>

\* The combined train pool is shuffled: by the same generator, after the eval
\* pool.
TrainShuffledSecond ==
    (build_pc = "build_sft_train" /\ build_pc' = "build_meta") =>
        /\ todo = <<>>
        /\ rng.seed = IntSeed(build_cfg.seed)
        /\ rng.drawn = DrawsFor(<<Len(sft_eval_all)>>)
        /\ rng'.seed = rng.seed
        /\ rng'.drawn = DrawsFor(<<Len(sft_eval_all), Len(sft_train_all)>>)
        /\ IsPermutation(sft_train_all', sft_train_all)
        /\ UNCHANGED <<sft_eval, sft_eval_all>>

\* C31: in a run the combined eval pool is shuffled before the combined train
\* pool, both by the one generator seeded with the global seed and only after
\* every persona has been split; the split of a persona never advances that
\* generator.
C31_GlobalGeneratorOrder ==
    [][PersonaStepLeavesGlobal /\ EvalShuffledFirst /\ TrainShuffledSecond]_vars

\* A run over two persona files of 2 records is over: the generator of the run
\* drew twice, for a pool of 2 each time, and the draw for the train pool was
\* made in the state the draw for the eval pool left.
C31_Witness ==
    /\ build_pc = "build_done"
    /\ run = 1
    /\ DOMAIN summary.personas = PersonaStems
    /\ rng = [seed |-> IntSeed(build_cfg.seed), drawn |-> <<2, 2>>]
    /\ [seed |-> IntSeed(build_cfg.seed), drawn |-> <<>>, n |-> 2] \in DOMAIN twister
    /\ [seed |-> IntSeed(build_cfg.seed), drawn |-> <<2>>, n |-> 2] \in DOMAIN twister

\* ------------------------------ claims on the run summary, under BuildSpec

\* The sum of a count of the summary s over the personas of stems.
RECURSIVE SumOver(_, _, _)
SumOver(s, stems, field) ==
    IF stems = <<>> THEN 0
    ELSE s.personas[Head(stems)][field] + SumOver(s, Tail(stems), field)

\* The counts of the summary s add up.
SummaryAddsUp(s) ==
    /\ DOMAIN s.personas = Range(PersonasOfRun)
    /\ \A persona \in DOMAIN s.personas :
          s.personas[persona].total = s.personas[persona].eval + s.personas[persona].remaining
    /\ s.sft.eval_total = SumOver(s, PersonasOfRun, "eval")
    /\ s.sft.train_total = SumOver(s, PersonasOfRun, "remaining")

\* The four kinds of partition are on disk with the counts of the summary s.
PartitionsWritten(s) ==
    /\ \A persona \in DOMAIN s.personas :
          /\ persona \in DOMAIN lora_eval
          /\ persona \in DOMAIN lora_train
          /\ Len(lora_eval[persona]) = s.personas[persona].eval
          /\ Len(lora_train[persona]) = s.personas[persona].remaining
    /\ sft_eval # None
    /\ sft_train # None
    /\ Len(sft_eval[1]) = s.sft.eval_total
    /\ Len(sft_train[1]) = s.sft.train_total

\* C32: the summary of a successful run has, for each persona, total = eval +
\* remaining, eval_total the sum of the eval counts and train_total the sum of
\* the remaining counts; and meta.json is written only when the four kinds of
\* partition have been written.
C32_SummaryAddsUpAfterPartitions ==
    /\ build_pc = "build_done" =>
          /\ meta = Some(summary)
          /\ SummaryAddsUp(summary)
          /\ PartitionsWritten(summary)
    /\ (build_pc \in {"build_personas", "build_sft_train", "build_meta"}) =>
          meta = prev.out.meta

\* A run over 2 records of brother and 1 of sister with a minimum of 1 is
\* over: 2 records in eval, 1 in train.
C32_Witness ==
    /\ build_pc = "build_done"
    /\ run = 1
    /\ meta # None
    /\ DOMAIN meta[1].personas = {"brother", "sister"}
    /\ meta[1].personas["brother"] = [total |-> 2, eval |-> 1, remaining |-> 1]
    /\ meta[1].personas["sister"] = [total |-> 1, eval |-> 1, remaining |-> 0]
    /\ meta[1].sft = [eval_total |-> 2, train_total |-> 1]

\* ------------------------------ claims on the persona's file, under ProcSpec

\* The records of the persona's file that hold the text of the k-th message of
\* the cleaned file (the k-th letter, which no other message carries).
RecordsWith(k) ==
    {r \in 1..Len(persona_file[1]) :
        \E n \in 1..Len(persona_file[1][r].messages) :
            \E p \in 1..Len(persona_file[1][r].messages[n].content) :
                persona_file[1][r].messages[n].content[p] = Letters[k]}

\* The records of the file follow one another in time without overlap.
RecordsInTimeOrder(file) ==
    /\ \A r \in 1..Len(file) : TimestampLe(file[r].timestamp_start, file[r].timestamp_end)
    /\ \A r \in 1..(Len(file) - 1) :
          TimestampLe(file[r].timestamp_end, file[r + 1].timestamp_start)

\* C33: the records written for a persona whose cleaned messages are in order
\* of time are in ascending order of time and do not overlap (a record ends no
\* later than the next one starts), and no message is in more than one record.
C33_RecordsOrderedAndDisjoint ==
    (proc_pc = "proc_done" /\ persona_file # None /\ ~Unsorted(cleaned_file)) =>
        /\ RecordsInTimeOrder(persona_file[1])
        /\ \A k \in 1..Len(cleaned_file) : Cardinality(RecordsWith(k)) <= 1

\* Four messages in order of time made two records, of two messages each.
C33_Witness ==
    /\ proc_pc = "proc_done"
    /\ persona_file # None
    /\ ~Unsorted(cleaned_file)
    /\ Len(cleaned_file) = 4
    /\ Len(persona_file[1]) = 2
    /\ RecordsWith(1) = {1}
    /\ RecordsWith(2) = {1}
    /\ RecordsWith(3) = {2}
    /\ RecordsWith(4) = {2}

\* ------------------------------- claims on the three stages, under PipeSpec

\* The records of the persona files the split run found, file after file.
PersonaRecordsFound == Concatenated(input_files, discover_persona_files(input_files))

\* C34: whatever runs of process and combine came before it, and in whatever
\* order, a run of the splitter takes no file named conversations.jsonl for a
\* persona, and assigns each record of the persona files to the split exactly
\* once.
C34_CombinedFileNeverAPersona ==
    build_pc = "build_done" =>
        /\ "conversations" \notin DOMAIN summary.personas
        /\ "conversations" \notin DOMAIN lora_eval \cup DOMAIN lora_train
        /\ DOMAIN summary.personas = DOMAIN input_files \ {"conversations"}
        /\ Len(sft_eval[1]) + Len(sft_train[1]) = Len(PersonaRecordsFound)
        /\ \A record \in Range(PersonaRecordsFound) :
              Count(record, sft_eval[1]) + Count(record, sft_train[1]) = 1
        /\ \A record \in Range(sft_eval[1]) \cup Range(sft_train[1]) :
              record \in Range(PersonaRecordsFound)

\* After a process run and a combine run, conversations.jsonl holding the
\* record of brother and the record of sister, a split run is over: it
\* assigned each of the two once.
C34_Witness ==
    /\ build_pc = "build_done"
    /\ pipe_runs = 3
    /\ combine_runs = 1
    /\ DOMAIN input_files = {"brother", "conversations", "sister"}
    /\ Len(input_files["sister"]) = 1
    /\ Len(input_files["brother"]) = 1
    /\ Len(input_files["conversations"]) = 2
    /\ Len(sft_eval[1]) + Len(sft_train[1]) = 2

\* --------------------------------- claims on manual labelling, ManualSpec

\* The step is an undo that took a message off the conversation in progress.
UndoSucceeds ==
    /\ request' = "undo"
    /\ response'.status = 200
    /\ Len(current_conversation') = Len(current_conversation) - 1

\* C35: after a successful undo the message offered next (the one at
\* current_index) is the message the undo took off the conversation in
\* progress, whatever adds and skips came before.
C35_UndoOffersRemovedMessage ==
    [][UndoSucceeds =>
          /\ current_index' < Len(all_messages)
          /\ Py(all_messages, current_index') = current_conversation[Len(current_conversation)]]_vars

\* An undo succeeded after a message was added and the next one skipped: the
\* conversation is empty again, and the message offered is the second.
C35_Witness ==
    /\ request = "undo"
    /\ response.status = 200
    /\ current_conversation = <<>>
    /\ Len(all_messages) = 3
    /\ current_index = 1

\* ------------------------------------- claims on VLM labelling, VlmSpec

\* C36: in a session of VLM labelling, whatever save-example, skip-image and
\* undo requests were handled, current_index is within 0 .. the number of
\* image messages.
C36_IndexWithinImages ==
    current_mode = "vlm" => (0 <= current_index /\ current_index <= Len(all_messages))

\* An example was saved when no image was left: the index is past the images.
C36_Witness ==
    /\ current_mode = "vlm"
    /\ request = "vlm/save-example"
    /\ response.status = 200
    /\ Len(all_messages) = 1
    /\ current_index = 2

\* The examples the persona's labeled_examples.jsonl holds, line by line; none
\* while there is no file.
ExamplesOnFile(persona) ==
    IF persona \in DOMAIN vlm_output_files
    THEN [k \in 1..Len(vlm_output_files[persona]) |-> JsonLoads(vlm_output_files[persona][k])]
    ELSE <<>>

\* C37: in a session of VLM labelling, whatever save-example and undo requests
\* were handled, the persona's labeled_examples.jsonl holds exactly the examples
\* of the undo stack, in the order of the stack.
C37_FileIsUndoStack ==
    current_mode = "vlm" => ExamplesOnFile(current_persona) = vlm_undo_stack

\* Two examples were saved and the second undone: the file holds the first,
\* as the stack does.
C37_Witness ==
    /\ current_mode = "vlm"
    /\ request = "vlm/undo"
    /\ response.status = 200
    /\ Len(labeled_conversations) = 2
    /\ labeled_conversations[1] # labeled_conversations[2]
    /\ vlm_undo_stack = <<labeled_conversations[1]>>
    /\ vlm_output_files[current_persona] = <<JsonLine(labeled_conversations[1])>>

\* C38: the labeled_count that save-example reports is the number of examples
\* the persona's output file holds, whatever save-example and undo requests
\* came before in the session.
C38_LabeledCountIsFileCount ==
    (current_mode = "vlm" /\ request = "vlm/save-example" /\ response.status = 200) =>
        response.body.labeled_count = Len(ExamplesOnFile(current_persona))

\* An example was saved, undone, and another saved: the file holds one
\* example, and save-example reported two.
C38_Witness ==
    /\ current_mode = "vlm"
    /\ request = "vlm/save-example"
    /\ response.status = 200
    /\ response.body.labeled_count = 2
    /\ Len(ExamplesOnFile(current_persona)) = 1
    /\ Len(vlm_undo_stack) = 1

\* -------------------- claims on concurrent add-to-conversation, RaceSpec

\* Both requests have been answered.
BothAnswered == \A t \in Threads : threads[t].pc \in {"done", "raised"}

\* C39: two add-to-conversation requests handled at the same time act as if
\* one were handled after the other: once both are answered, none has failed
\* on the index, the conversation in progress holds the messages before
\* current_index, each once and in order: no message twice, no index passed
\* over.
C39_ConcurrentAddsAtomic ==
    BothAnswered =>
        /\ \A t \in Threads : threads[t].pc = "done"
        /\ current_conversation = SubSeq(all_messages, 1, current_index)

\* Both requests were answered with success after each appended the first
\* message: it is in the conversation twice, and the second was never offered.
C39_Witness ==
    /\ \A t \in Threads : threads[t].pc = "done" /\ threads[t].response.status = 200
    /\ Len(all_messages) = 3
    /\ current_conversation = <<all_messages[1], all_messages[1]>>
    /\ current_index = 2

====
